---- MODULE Spec2Model ----
(***************************************************************************)
(* coreview: the diff addressing and streaming-reference subsystem.        *)
(*                                                                         *)
(* Strings are sequences of one-character strings, indexed from 0 by the   *)
(* helpers below exactly as the JavaScript string methods index them.      *)
(***************************************************************************)
EXTENDS Integers, Sequences, FiniteSets, TLC

VARIABLES
    text,        \* the whole narration text of the run (fixed at Init)
    rest,        \* the part of the narration the provider has not yet yielded
    buffer,      \* createStreamParser: let buffer
    inRef,       \* createStreamParser: let inRef
    emitted,     \* every token returned so far, adjacent text tokens joined
    lastTokens,  \* the tokens returned by the latest push or flush call
    gaveUp,      \* some push so far took the "ref too long" branch
    pc,          \* the position of the run
    src,         \* the unified diff the run was given, as files and hunks
    rawDiff,     \* source.rawDiff: the text of that diff
    diff,        \* main: const diff (the ParsedDiff), <<>> before parseDiff
    lineCount,   \* main: const lineCount
    enriched,    \* main: const enriched
    rawMode,     \* main: const raw (the --raw argument)
    refSpec,     \* the reference under resolution, by its parts
    ref,         \* resolveReference: p.ref, the reference text
    resolved,    \* the ResolvedReference returned for ref
    rendered,    \* the string renderReference returned for resolved
    blocks,      \* main, paged mode: const blocks
    sawRef,      \* main, paged mode: let sawRef
    started,     \* main: let started
    done,        \* main, paged mode: let done
    handled,     \* every token the producer handled, with where it went
    paged,       \* main: const paged (the --paged argument)
    curBlock,    \* main, paged mode: let i, the index of the current block
    curChars,    \* main, paged mode: let c, the characters printed of it
    cpc,         \* the await at which the foreground loop of paged mode is
    shown,       \* process.stdout: the narration written so far, by block
    acked,       \* for each prompt answered, what had been written of its
                 \* block when the answer was received
    prompts,     \* waitForEnter: for each prompt shown, the index of its
                 \* block and the files it lists
    exitCode,    \* the exit code of the process, -1 while it runs
    calls        \* the calls of resolveReference so far: reference, result

tokVars == <<text, rest, buffer, inRef, emitted, lastTokens, gaveUp>>
diffVars == <<src, rawDiff, diff, lineCount, enriched>>
resVars == <<refSpec, ref, resolved, rendered>>
pagedVars == <<blocks, sawRef, started, done, handled>>
conVars == <<curBlock, curChars, cpc, shown, acked, prompts>>
runVars == <<paged, exitCode, calls>>
vars == <<tokVars, diffVars, rawMode, resVars, pagedVars, conVars, runVars, pc>>

-----------------------------------------------------------------------------
(* JavaScript string helpers *)

Max(a, b) == IF a >= b THEN a ELSE b
Min(a, b) == IF a <= b THEN a ELSE b

\* s.slice(a, b) for 0-based a, b (clamped like String.prototype.slice)
Slice(s, a, b) ==
    LET lo == Max(0, Min(a, Len(s)))
        hi == Max(0, Min(b, Len(s)))
    IN  IF lo >= hi THEN <<>> ELSE SubSeq(s, lo + 1, hi)

\* s.slice(a)
SliceFrom(s, a) == Slice(s, a, Len(s))

\* s.startsWith(pat, i), i 0-based
StartsWithAt(s, pat, i) ==
    /\ i >= 0
    /\ i + Len(pat) <= Len(s)
    /\ \A k \in 1..Len(pat) : s[i + k] = pat[k]

StartsWith(s, pat) == StartsWithAt(s, pat, 0)

\* s.indexOf(pat): the first 0-based position of pat in s, or -1
IndexOf(s, pat) ==
    LET hits == {i \in 0..(Len(s) - Len(pat)) :
                    s[i + 1] = pat[1] /\ StartsWithAt(s, pat, i)}
    IN  IF hits = {} THEN -1
        ELSE CHOOSE i \in hits : \A j \in hits : i <= j

RECURSIVE Concat(_)
\* parts.join('')
Concat(parts) ==
    IF parts = <<>> THEN <<>> ELSE Head(parts) \o Concat(Tail(parts))

RECURSIVE Join(_, _)
\* parts.join(sep)
\* (joined by halves, so that an index of thousands of lines can be joined)
Join(parts, sep) ==
    IF parts = <<>> THEN <<>>
    ELSE IF Len(parts) = 1 THEN parts[1]
    ELSE Join(SubSeq(parts, 1, Len(parts) \div 2), sep) \o sep
         \o Join(SubSeq(parts, Len(parts) \div 2 + 1, Len(parts)), sep)

RECURSIVE Split(_, _)
\* s.split(sep) for a non-empty separator
Split(s, sep) ==
    LET k == IndexOf(s, sep)
    IN  IF k = -1 THEN <<s>>
        ELSE <<Slice(s, 0, k)>> \o Split(SliceFrom(s, k + Len(sep)), sep)

DigitChars == <<"0", "1", "2", "3", "4", "5", "6", "7", "8", "9">>

\* \d
IsDigit(c) == \E d \in 1..10 : DigitChars[d] = c

DigitValue(c) == (CHOOSE d \in 1..10 : DigitChars[d] = c) - 1

RECURSIVE ParseInt(_)
\* parseInt(s, 10) for a string of decimal digits
ParseInt(s) ==
    IF Len(s) = 0 THEN 0
    ELSE 10 * ParseInt(SubSeq(s, 1, Len(s) - 1)) + DigitValue(s[Len(s)])

RECURSIVE ToDigits(_)
\* `${n}` for an integer n >= 0
ToDigits(n) ==
    IF n < 10 THEN <<DigitChars[n + 1]>>
    ELSE ToDigits(n \div 10) \o <<DigitChars[(n % 10) + 1]>>

\* the length of the run of digits of s that starts at 0-based position i
DigitRun(s, i) ==
    LET stops == {j \in i..(Len(s) - 1) : ~IsDigit(s[j + 1])}
    IN  IF stops = {} THEN Max(0, Len(s) - i)
        ELSE (CHOOSE j \in stops : \A h \in stops : j <= h) - i

-----------------------------------------------------------------------------
(* stream.ts: the reference tokenizer *)

REF_START == <<"[", "[", "r", "e", "f", ":">>
REF_END == <<"]", "]">>
MAX_REF_LENGTH == 200
HUNK_SEP == <<":", "h", "u", "n", "k", ":">>

\* refContent.split(':hunk:')[0]
RefFile(refContent) ==
    LET k == IndexOf(refContent, HUNK_SEP)
    IN  IF k = -1 THEN refContent ELSE Slice(refContent, 0, k)

TextToken(s) == [type |-> "text", content |-> s, file |-> <<>>]
RefToken(s) == [type |-> "ref", content |-> s, file |-> RefFile(s)]

\* a push that holds nothing back at the end of a chunk
SafeLenAll(buf) == Len(buf)

\* a push that holds back as many characters as the opener has
SafeLenShort(buf) == Max(0, Len(buf) - Len(REF_START))

\* const safe = Math.max(0, buffer.length - REF_START.length + 1)
SafeLen(buf) == Max(0, Len(buf) - Len(REF_START) + 1)

\* a push that never gives up on an unterminated candidate
TooLongNever(buf) == FALSE

\* the test of the "ref too long" branch
TooLong(buf) == Len(buf) > MAX_REF_LENGTH

\* a push that leaves one closing bracket in the buffer
AfterRefOffByOne(buf, refEnd) == SliceFrom(buf, refEnd + 1)

\* buffer = buffer.slice(refEnd + REF_END.length)
AfterRef(buf, refEnd) == SliceFrom(buf, refEnd + Len(REF_END))

RECURSIVE PushLoop(_, _, _)
\* the while loop of push, from a buffer that already holds the chunk
PushLoop(buf, inR, toks) ==
    IF Len(buf) = 0
    THEN [buffer |-> buf, inRef |-> inR, tokens |-> toks]
    ELSE
      LET refStart == IF inR THEN 0 ELSE IndexOf(buf, REF_START)
      IN
      IF refStart = -1
      THEN \* no ref start found: emit all but the last few chars
           LET safe == SafeLen(buf)
           IN  IF safe > 0
               THEN [buffer |-> SliceFrom(buf, safe), inRef |-> FALSE,
                     tokens |-> Append(toks, TextToken(Slice(buf, 0, safe)))]
               ELSE [buffer |-> buf, inRef |-> FALSE, tokens |-> toks]
      ELSE
        LET toks1 == IF ~inR /\ refStart > 0
                     THEN Append(toks, TextToken(Slice(buf, 0, refStart)))
                     ELSE toks
            buf1 == IF inR THEN buf ELSE SliceFrom(buf, refStart)
            refEnd == IndexOf(buf1, REF_END)
        IN
        IF refEnd # -1
        THEN \* complete ref found
             PushLoop(AfterRef(buf1, refEnd), FALSE,
                      Append(toks1,
                             RefToken(Slice(buf1, Len(REF_START), refEnd))))
        ELSE IF TooLong(buf1)
        THEN \* ref too long: treat [[ref: as literal text
             PushLoop(SliceFrom(buf1, Len(REF_START)), FALSE,
                      Append(toks1, TextToken(REF_START)))
        ELSE \* need more input
             [buffer |-> buf1, inRef |-> TRUE, tokens |-> toks1]

\* push(chunk) on the parser state (buf, inR)
ParserPush(buf, inR, chunk) == PushLoop(buf \o chunk, inR, <<>>)

\* a flush that empties the buffer and leaves inRef as it is
ParserFlushKeepingInRef(buf, inR) ==
    [buffer |-> <<>>, inRef |-> inR,
     tokens |-> IF Len(buf) > 0 THEN <<TextToken(buf)>> ELSE <<>>]

\* flush() on the parser state (buf, inR)
ParserFlush(buf, inR) ==
    [buffer |-> <<>>, inRef |-> FALSE,
     tokens |-> IF Len(buf) > 0 THEN <<TextToken(buf)>> ELSE <<>>]

-----------------------------------------------------------------------------
(* types.ts: ParsedDiff = Map<string, DiffFile>, kept in insertion order *)

\* diff.get(key) !== undefined
MapHas(m, key) == \E k \in 1..Len(m) : m[k].path = key

\* diff.get(key), for a key the map has
MapGet(m, key) == m[CHOOSE k \in 1..Len(m) : m[k].path = key]

\* result.set(file.path, file): a key already present keeps its position
MapSet(m, file) ==
    IF MapHas(m, file.path)
    THEN [k \in 1..Len(m) |-> IF m[k].path = file.path THEN file ELSE m[k]]
    ELSE Append(m, file)

DiffLine(type, content) == [type |-> type, content |-> content]

-----------------------------------------------------------------------------
(* diff.ts *)

DIFF_GIT == <<"d", "i", "f", "f", " ", "-", "-", "g", "i", "t", " ">>
DIFF_GIT_A == DIFF_GIT \o <<"a", "/">>
B_SEP == <<" ", "b", "/">>
HUNK_AT == <<"@", "@">>
PLUS == <<"+">>
MINUS == <<"-">>
SPACE == <<" ">>
PLUS3 == <<"+", "+", "+">>
MINUS3 == <<"-", "-", "-">>
NEWLINE == <<"\n">>
UNKNOWN == <<"u", "n", "k", "n", "o", "w", "n">>

\* line.match(/diff --git a\/.+ b\/(.+)/)?.[1] ?? 'unknown': the leftmost
\* 'diff --git a/', then the greedy .+ up to the last ' b/' that leaves at
\* least one character for the path
DiffGitPath(line) ==
    LET seps(i) == {j \in (i + Len(DIFF_GIT_A) + 1)..(Len(line) - Len(B_SEP) - 1) :
                       StartsWithAt(line, B_SEP, j)}
        starts == {i \in 0..(Len(line) - Len(DIFF_GIT_A)) :
                      StartsWithAt(line, DIFF_GIT_A, i) /\ seps(i) # {}}
    IN  IF starts = {} THEN UNKNOWN
        ELSE LET i == CHOOSE x \in starts : \A y \in starts : x <= y
                 j == CHOOSE x \in seps(i) : \A y \in seps(i) : x >= y
             IN  SliceFrom(line, j + Len(B_SEP))

NoFile == [some |-> FALSE, path |-> <<>>, hunks |-> <<>>]
NoHunk == [some |-> FALSE, index |-> 0, header |-> <<>>, lines |-> <<>>]

AsFile(f) == [path |-> f.path, hunks |-> f.hunks]
AsHunk(h) == [index |-> h.index, header |-> h.header, lines |-> h.lines]

\* the lines a hunk body line adds to currentHunk.lines (none or one)
Classify(line) ==
    IF StartsWith(line, PLUS) /\ ~StartsWith(line, PLUS3)
    THEN <<DiffLine("add", SliceFrom(line, 1))>>
    ELSE IF StartsWith(line, MINUS) /\ ~StartsWith(line, MINUS3)
    THEN <<DiffLine("delete", SliceFrom(line, 1))>>
    ELSE IF StartsWith(line, SPACE) \/ line = <<>>
    THEN <<DiffLine("context", SliceFrom(line, 1))>>
    ELSE <<>>

\* a file header step that keeps the open file only if it has hunks
FileHeaderStepSkippingEmpty(st, line) ==
    [result |-> IF st.file.some /\ st.file.hunks # <<>>
                THEN MapSet(st.result, AsFile(st.file))
                ELSE st.result,
     file |-> [some |-> TRUE, path |-> DiffGitPath(line), hunks |-> <<>>],
     hunk |-> NoHunk,
     hunkIndex |-> 0]

\* the loop body of parseDiff on a 'diff --git ' line
FileHeaderStep(st, line) ==
    [result |-> IF st.file.some THEN MapSet(st.result, AsFile(st.file))
                ELSE st.result,
     file |-> [some |-> TRUE, path |-> DiffGitPath(line), hunks |-> <<>>],
     hunk |-> NoHunk,
     hunkIndex |-> 0]

\* a range header step that numbers the hunks of a file from 0
HunkHeaderStepFromZero(st, line) ==
    [result |-> st.result,
     file |-> IF st.hunk.some
              THEN [st.file EXCEPT !.hunks = Append(@, AsHunk(st.hunk))]
              ELSE st.file,
     hunk |-> [some |-> TRUE, index |-> st.hunkIndex, header |-> line,
               lines |-> <<>>],
     hunkIndex |-> st.hunkIndex + 1]

\* the loop body of parseDiff on a '@@' line while a file is open
HunkHeaderStep(st, line) ==
    [result |-> st.result,
     file |-> IF st.hunk.some
              THEN [st.file EXCEPT !.hunks = Append(@, AsHunk(st.hunk))]
              ELSE st.file,
     hunk |-> [some |-> TRUE, index |-> st.hunkIndex + 1, header |-> line,
               lines |-> <<>>],
     hunkIndex |-> st.hunkIndex + 1]

\* the loop body of parseDiff for one line
ParseStep(st, line) ==
    IF StartsWith(line, DIFF_GIT) THEN FileHeaderStep(st, line)
    ELSE IF StartsWith(line, HUNK_AT) /\ st.file.some THEN HunkHeaderStep(st, line)
    ELSE IF st.hunk.some
         THEN [st EXCEPT !.hunk.lines = @ \o Classify(line)]
    ELSE st

RECURSIVE ParseLines(_, _)
\* for (const line of lines)
ParseLines(st, lines) ==
    IF lines = <<>> THEN st
    ELSE ParseLines(ParseStep(st, Head(lines)), Tail(lines))

\* parseDiff({ raw })
parseDiff(raw) ==
    LET st == ParseLines([result |-> <<>>, file |-> NoFile, hunk |-> NoHunk,
                          hunkIndex |-> 0],
                         Split(raw, NEWLINE))
        file == IF st.hunk.some /\ st.file.some
                THEN [st.file EXCEPT !.hunks = Append(@, AsHunk(st.hunk))]
                ELSE st.file
    IN  IF file.some THEN MapSet(st.result, AsFile(file)) ELSE st.result

\* "U2500" stands for the one character U+2500 (box drawings light horizontal)
BANNER_OPEN == <<"U2500", "U2500", " ">>
BANNER_CLOSE == <<" ", "U2500", "U2500">>
HUNK_TAG_OPEN == <<"[", "h", "u", "n", "k", ":">>
HUNK_TAG_CLOSE == <<"]", " ">>

\* prefix + line.content
RawLine(l) ==
    (IF l.type = "add" THEN PLUS ELSE IF l.type = "delete" THEN MINUS ELSE SPACE)
    \o l.content

RawLines(lines) == [k \in 1..Len(lines) |-> RawLine(lines[k])]

\* the parts enrichDiff pushes for one hunk
EnrichHunk(hunk) ==
    <<HUNK_TAG_OPEN \o ToDigits(hunk.index) \o HUNK_TAG_CLOSE \o hunk.header>>
    \o RawLines(hunk.lines) \o << <<>> >>

RECURSIVE EnrichHunks(_)
EnrichHunks(hunks) ==
    IF hunks = <<>> THEN <<>>
    ELSE EnrichHunk(Head(hunks)) \o EnrichHunks(Tail(hunks))

RECURSIVE EnrichFiles(_)
\* the parts enrichDiff pushes, file by file in map order
EnrichFiles(files) ==
    IF files = <<>> THEN <<>>
    ELSE <<BANNER_OPEN \o Head(files).path \o BANNER_CLOSE \o NEWLINE>>
         \o EnrichHunks(Head(files).hunks) \o EnrichFiles(Tail(files))

\* enrichDiff({ diff })
enrichDiff(d) == Join(EnrichFiles(d), NEWLINE)

RECURSIVE SumLines(_)
SumLines(hunks) ==
    IF hunks = <<>> THEN 0 ELSE Len(Head(hunks).lines) + SumLines(Tail(hunks))

RECURSIVE countDiffLinesFirstHunk(_)
RECURSIVE countDiffLines(_)
\* countDiffLines({ diff })
\* a count that stops after the first hunk of each file
countDiffLinesFirstHunk(d) ==
    IF d = <<>> THEN 0
    ELSE (IF Head(d).hunks = <<>> THEN 0 ELSE Len(Head(d).hunks[1].lines))
         + countDiffLinesFirstHunk(Tail(d))

countDiffLines(d) ==
    IF d = <<>> THEN 0
    ELSE SumLines(Head(d).hunks) + countDiffLines(Tail(d))

-----------------------------------------------------------------------------
(* stream.ts: resolveReference *)

COLON_L == <<":", "L">>
\* the characters '.' does not match
LineTerminators == {"\n", "\r"}

NoTail == [matched |-> FALSE, g2 |-> <<>>, has3 |-> FALSE, g3 |-> <<>>,
           has4 |-> FALSE, g4 |-> <<>>, has5 |-> FALSE, g5 |-> <<>>]

\* the end of an optional group (?:lead(\d+))? tried at position p of t, which
\* is p when the group does not match there
GroupEnd(t, p, lead) ==
    IF StartsWithAt(t, lead, p) /\ DigitRun(t, p + Len(lead)) > 0
    THEN p + Len(lead) + DigitRun(t, p + Len(lead)) ELSE p

\* the groups of a tail t whose hunk number ends at n2, hunk range at p3,
\* first line number at p4 and line range at p5
TailGroups(t, n2, p3, p4, p5) ==
    IF n2 = 0 \/ p5 # Len(t) THEN NoTail
    ELSE [matched |-> TRUE,
          g2 |-> Slice(t, 0, n2),
          has3 |-> p3 > n2, g3 |-> Slice(t, n2 + 1, p3),
          has4 |-> p4 > p3, g4 |-> Slice(t, p3 + Len(COLON_L), p4),
          has5 |-> p5 > p4, g5 |-> Slice(t, p4 + 1, p5)]

TailLines(t, n2, p3, p4) ==
    TailGroups(t, n2, p3, p4, IF p4 > p3 THEN GroupEnd(t, p4, MINUS) ELSE p4)

TailRange(t, n2, p3) == TailLines(t, n2, p3, GroupEnd(t, p3, COLON_L))

TailHunk(t, n2) == TailRange(t, n2, GroupEnd(t, n2, MINUS))

\* t against (\d+)(?:-(\d+))?(?::L(\d+)(?:-(\d+))?)?$
TailMatch(t) == TailHunk(t, DigitRun(t, 0))

\* the match with (.+) ending at position p
HunkMatchAt(r, p) ==
    [matched |-> /\ StartsWithAt(r, HUNK_SEP, p)
                 /\ \A k \in 1..p : r[k] \notin LineTerminators
                 /\ TailMatch(SliceFrom(r, p + Len(HUNK_SEP))).matched,
     g1 |-> Slice(r, 0, p),
     tail |-> TailMatch(SliceFrom(r, p + Len(HUNK_SEP)))]

HunkMatchAmong(r, cands) ==
    IF cands = {} THEN [matched |-> FALSE, g1 |-> <<>>, tail |-> NoTail]
    ELSE HunkMatchAt(r, CHOOSE c \in cands : \A e \in cands : e <= c)

\* a matcher that keeps state between calls, as a regex with the g flag does
\* with test: every second call finds no match
HunkMatchSticky(r) ==
    IF Len(calls) % 2 = 1 THEN [matched |-> FALSE, g1 |-> <<>>, tail |-> NoTail]
    ELSE HunkMatchAmong(r, {p \in 1..(Len(r) - Len(HUNK_SEP)) :
                               HunkMatchAt(r, p).matched})

\* ref.match(/^(.+):hunk:(\d+)(?:-(\d+))?(?::L(\d+)(?:-(\d+))?)?$/): the greedy
\* (.+) takes the longest prefix that lets the rest match
HunkMatch(r) ==
    HunkMatchAmong(r, {p \in 1..(Len(r) - Len(HUNK_SEP)) :
                          HunkMatchAt(r, p).matched})

NoRange == [start |-> 0, end |-> 0]

\* the three shapes of ResolvedReference, absent fields left empty
Resolved(file, hunks) ==
    [status |-> "resolved", file |-> file, reason |-> "", hunks |-> hunks,
     hasRange |-> FALSE, lineRange |-> NoRange, raw |-> <<>>]
ResolvedRange(file, hunks, start, end) ==
    [status |-> "resolved", file |-> file, reason |-> "", hunks |-> hunks,
     hasRange |-> TRUE, lineRange |-> [start |-> start, end |-> end],
     raw |-> <<>>]
NotFound(file, reason) ==
    [status |-> "not_found", file |-> file, reason |-> reason, hunks |-> <<>>,
     hasRange |-> FALSE, lineRange |-> NoRange, raw |-> <<>>]
Malformed(raw) ==
    [status |-> "malformed", file |-> <<>>, reason |-> "", hunks |-> <<>>,
     hasRange |-> FALSE, lineRange |-> NoRange, raw |-> raw]

\* file.hunks.find(h => h.index === i)
HasHunk(file, i) == \E k \in 1..Len(file.hunks) : file.hunks[k].index = i
FindHunk(file, i) ==
    file.hunks[CHOOSE k \in 1..Len(file.hunks) :
                  /\ file.hunks[k].index = i
                  /\ \A j \in 1..(k - 1) : file.hunks[j].index # i]

RECURSIVE HunkLoop(_, _, _, _)
\* a loop that passes over a missing ordinal
HunkLoopSkipping(file, i, endHunk, acc) ==
    IF i > endHunk THEN [ok |-> TRUE, hunks |-> acc]
    ELSE IF ~HasHunk(file, i) THEN HunkLoop(file, i + 1, endHunk, acc)
    ELSE HunkLoop(file, i + 1, endHunk, Append(acc, FindHunk(file, i)))

\* a loop that stops before the last ordinal: i < endHunk
HunkLoopExclusive(file, i, endHunk, acc) ==
    IF i >= endHunk THEN [ok |-> TRUE, hunks |-> acc]
    ELSE IF ~HasHunk(file, i) THEN [ok |-> FALSE, hunks |-> <<>>]
    ELSE HunkLoop(file, i + 1, endHunk, Append(acc, FindHunk(file, i)))

\* for (let i = startHunk; i <= endHunk; i++): the hunks, or a failure at the
\* first ordinal the file does not have
HunkLoop(file, i, endHunk, acc) ==
    IF i > endHunk THEN [ok |-> TRUE, hunks |-> acc]
    ELSE IF ~HasHunk(file, i) THEN [ok |-> FALSE, hunks |-> <<>>]
    ELSE HunkLoop(file, i + 1, endHunk, Append(acc, FindHunk(file, i)))

\* a resolver that keeps the line range whatever the number of hunks
ResolveLoopedAnyCount(m, filePath, loop) ==
    IF ~loop.ok THEN NotFound(filePath, "hunk_not_found")
    ELSE IF m.has4
    THEN LET lineStart == ParseInt(m.g4)
             lineEnd == IF m.has5 THEN ParseInt(m.g5) ELSE lineStart
         IN  ResolvedRange(filePath, loop.hunks, Min(lineStart, lineEnd),
                           Max(lineStart, lineEnd))
    ELSE Resolved(filePath, loop.hunks)

\* a resolver that reports the line range as the reference writes it
ResolveLoopedAsWritten(m, filePath, loop) ==
    IF ~loop.ok THEN NotFound(filePath, "hunk_not_found")
    ELSE IF m.has4 /\ Len(loop.hunks) = 1
    THEN LET lineStart == ParseInt(m.g4)
             lineEnd == IF m.has5 THEN ParseInt(m.g5) ELSE lineStart
         IN  ResolvedRange(filePath, loop.hunks, lineStart, lineEnd)
    ELSE Resolved(filePath, loop.hunks)

\* resolveReference after its for loop
ResolveLooped(m, filePath, loop) ==
    IF ~loop.ok THEN NotFound(filePath, "hunk_not_found")
    ELSE IF m.has4 /\ Len(loop.hunks) = 1
    THEN LET lineStart == ParseInt(m.g4)
             lineEnd == IF m.has5 THEN ParseInt(m.g5) ELSE lineStart
         IN  ResolvedRange(filePath, loop.hunks, Min(lineStart, lineEnd),
                           Max(lineStart, lineEnd))
    ELSE Resolved(filePath, loop.hunks)

\* a resolver that looks for the hunks of a file the index does not have as
\* it does in a file without hunks
ResolveMatchedLoopFirst(r, d, hunkMatch) ==
    LET fileOnly == ~hunkMatch.matched
        filePath == IF fileOnly THEN r ELSE hunkMatch.g1
        m == hunkMatch.tail
    IN  IF fileOnly
        THEN IF ~MapHas(d, filePath)
             THEN NotFound(filePath, "file_not_in_diff")
             ELSE Resolved(filePath, MapGet(d, filePath).hunks)
        ELSE
          LET startHunk == ParseInt(m.g2)
              endHunk == IF m.has3 THEN ParseInt(m.g3) ELSE startHunk
          IN  ResolveLooped(m, filePath,
                  HunkLoop(IF MapHas(d, filePath) THEN MapGet(d, filePath)
                           ELSE [hunks |-> <<>>],
                           startHunk, endHunk, <<>>))

\* resolveReference after ref.match
ResolveMatched(r, d, hunkMatch) ==
    LET fileOnly == ~hunkMatch.matched
        filePath == IF fileOnly THEN r ELSE hunkMatch.g1
        m == hunkMatch.tail
    IN  IF ~MapHas(d, filePath) THEN NotFound(filePath, "file_not_in_diff")
        ELSE IF fileOnly THEN Resolved(filePath, MapGet(d, filePath).hunks)
        ELSE
          LET startHunk == ParseInt(m.g2)
              endHunk == IF m.has3 THEN ParseInt(m.g3) ELSE startHunk
          IN  ResolveLooped(m, filePath,
                  HunkLoop(MapGet(d, filePath), startHunk, endHunk, <<>>))

resolveReference(r, d) == ResolveMatched(r, d, HunkMatch(r))

-----------------------------------------------------------------------------
(* render.ts *)

\* the escape character is the one-character string "ESC"
RESET == <<"ESC", "[", "0", "m">>
DIM == <<"ESC", "[", "2", "m">>
GREEN == <<"ESC", "[", "3", "2", "m">>
RED == <<"ESC", "[", "3", "1", "m">>
YELLOW == <<"ESC", "[", "3", "3", "m">>

CONTEXT_LINES == 2

INDENT == <<" ", " ">>
AT_MINUS == <<"@", "@", " ", "-">>
SP_PLUS == <<" ", "+">>
SP_AT == <<" ", "@", "@">>
COMMA == <<",">>

\* the end of an optional ',\d+' that starts at q
SkipCount(h, q) ==
    IF StartsWithAt(h, COMMA, q) /\ DigitRun(h, q + 1) > 0
    THEN q + 1 + DigitRun(h, q + 1) ELSE q

\* the match whose old start has n1 digits and whose old side ends at q1
HeaderNewSide(h, p, n1, q1, n2) ==
    [ok |-> /\ StartsWithAt(h, AT_MINUS, p)
            /\ n1 > 0
            /\ StartsWithAt(h, SP_PLUS, q1)
            /\ n2 > 0
            /\ StartsWithAt(h, SP_AT, SkipCount(h, q1 + Len(SP_PLUS) + n2)),
     g1 |-> Slice(h, p + Len(AT_MINUS), p + Len(AT_MINUS) + n1),
     g2 |-> Slice(h, q1 + Len(SP_PLUS), q1 + Len(SP_PLUS) + n2)]

HeaderOldSide(h, p, n1, q1) ==
    HeaderNewSide(h, p, n1, q1, DigitRun(h, q1 + Len(SP_PLUS)))

HeaderOldStart(h, p, n1) ==
    HeaderOldSide(h, p, n1, SkipCount(h, p + Len(AT_MINUS) + n1))

\* /@@ -(\d+)(?:,\d+)? \+(\d+)(?:,\d+)? @@/ matched at position p
HeaderMatchAt(h, p) == HeaderOldStart(h, p, DigitRun(h, p + Len(AT_MINUS)))

HeaderMatchAmong(header, at) ==
    IF at = {} THEN [ok |-> FALSE, g1 |-> <<>>, g2 |-> <<>>]
    ELSE HeaderMatchAt(header, CHOOSE p \in at : \A q \in at : p <= q)

\* the fields of the first match
HeaderStarts(match) ==
    IF ~match.ok THEN [oldStart |-> 0, newStart |-> 1]
    ELSE [oldStart |-> ParseInt(match.g1), newStart |-> ParseInt(match.g2)]

parseHunkHeader(header) ==
    HeaderStarts(HeaderMatchAmong(header,
        {p \in 0..(Len(header) - 1) : HeaderMatchAt(header, p).ok}))

\* a count that leaves context lines out of the old side
countLinesNoContext(lines) ==
    [oldCount |-> Cardinality({k \in 1..Len(lines) :
                                 lines[k].type = "delete"}),
     newCount |-> Cardinality({k \in 1..Len(lines) :
                                 lines[k].type \in {"add", "context"}})]

countLines(lines) ==
    [oldCount |-> Cardinality({k \in 1..Len(lines) :
                                 lines[k].type \in {"delete", "context"}}),
     newCount |-> Cardinality({k \in 1..Len(lines) :
                                 lines[k].type \in {"add", "context"}})]

\* `@@ -${oldStart},${slice.oldCount} +${newStart},${slice.newCount} @@`
SliceHeaderOf(original, skipped, slice) ==
    AT_MINUS \o ToDigits(original.oldStart + skipped.oldCount) \o COMMA
    \o ToDigits(slice.oldCount) \o SP_PLUS
    \o ToDigits(original.newStart + skipped.newCount) \o COMMA
    \o ToDigits(slice.newCount) \o SP_AT

\* a header that keeps the start numbers of the hunk
buildSliceHeaderKeepingStart(hunk, sliceStart, sliceLines) ==
    SliceHeaderOf(parseHunkHeader(hunk.header), countLines(<<>>),
                  countLines(sliceLines))

buildSliceHeader(hunk, sliceStart, sliceLines) ==
    SliceHeaderOf(parseHunkHeader(hunk.header),
                  countLines(Slice(hunk.lines, 0, sliceStart)),
                  countLines(sliceLines))

\* a slice that starts one line late: start - CONTEXT_LINES
sliceHunkLinesLate(hunk, lineRange) ==
    LET total == Len(hunk.lines)
        start == Max(1, Min(lineRange.start, total))
        end == Max(start, Min(lineRange.end, total))
        sliceStart == Max(0, start - CONTEXT_LINES)
        sliceEnd == Min(total, end + CONTEXT_LINES)
    IN  [lines |-> Slice(hunk.lines, sliceStart, sliceEnd),
         sliceStart |-> sliceStart]

sliceHunkLines(hunk, lineRange) ==
    LET total == Len(hunk.lines)
        start == Max(1, Min(lineRange.start, total))
        end == Max(start, Min(lineRange.end, total))
        sliceStart == Max(0, start - 1 - CONTEXT_LINES)
        sliceEnd == Min(total, end + CONTEXT_LINES)
    IN  [lines |-> Slice(hunk.lines, sliceStart, sliceEnd),
         sliceStart |-> sliceStart]

\* (l.type === 'add' ? '+' : l.type === 'delete' ? '-' : ' ') + l.content
RawDiffLine(l) ==
    (IF l.type = "add" THEN PLUS
     ELSE IF l.type = "delete" THEN MINUS ELSE SPACE) \o l.content

ColorDiffLine(line) ==
    IF line.type = "add"
    THEN INDENT \o GREEN \o PLUS \o line.content \o RESET \o NEWLINE
    ELSE IF line.type = "delete"
    THEN INDENT \o RED \o MINUS \o line.content \o RESET \o NEWLINE
    ELSE INDENT \o DIM \o SPACE \o line.content \o RESET \o NEWLINE

renderDiffLines(lines, raw) ==
    [k \in 1..Len(lines) |->
        IF raw THEN RawDiffLine(lines[k]) ELSE ColorDiffLine(lines[k])]

\* the backquote is the one-character string "BQ"
FENCE == <<"BQ", "BQ", "BQ">>
FENCE_OPEN == NEWLINE \o FENCE \o <<"d", "i", "f", "f">> \o NEWLINE
FENCE_CLOSE == NEWLINE \o FENCE \o NEWLINE
OLD_FILE == MINUS3 \o <<" ", "a", "/">>
NEW_FILE == PLUS3 \o <<" ", "b", "/">>

\* the dimmed file banner line, after an empty line
FileBanner(file) ==
    NEWLINE \o INDENT \o DIM \o BANNER_OPEN \o file \o BANNER_CLOSE \o RESET
    \o NEWLINE
\* the dimmed, indented hunk header line
HeaderLine(header) == INDENT \o DIM \o header \o RESET \o NEWLINE

RECURSIVE RawHunksLines(_)
\* hunks.flatMap(h => [h.header, ...h.lines.map(..)])
RawHunksLines(hunks) ==
    IF hunks = <<>> THEN <<>>
    ELSE <<Head(hunks).header>> \o renderDiffLines(Head(hunks).lines, TRUE)
         \o RawHunksLines(Tail(hunks))

RECURSIVE ColorHunksParts(_)
ColorHunksParts(hunks) ==
    IF hunks = <<>> THEN <<>>
    ELSE <<HeaderLine(Head(hunks).header)>>
         \o renderDiffLines(Head(hunks).lines, FALSE)
         \o ColorHunksParts(Tail(hunks))

\* the partial hunk: the slice sl under its synthesized header
RenderSliced(file, raw, lines, header) ==
    IF raw
    THEN FENCE_OPEN \o OLD_FILE \o file \o NEWLINE
         \o NEW_FILE \o file \o NEWLINE \o header \o NEWLINE
         \o Join(renderDiffLines(lines, raw), NEWLINE)
         \o FENCE_CLOSE
    ELSE Concat(<<FileBanner(file), HeaderLine(header)>>
                \o renderDiffLines(lines, raw))

RenderSlice(hunk, file, raw, sl) ==
    RenderSliced(file, raw, sl.lines,
                 buildSliceHeader(hunk, sl.sliceStart, sl.lines))

\* a renderer that slices the first hunk whenever a line range is given
renderHunksAnyCount(hunks, file, raw, hasRange, lineRange) ==
    IF hasRange /\ Len(hunks) >= 1
    THEN RenderSlice(hunks[1], file, raw, sliceHunkLines(hunks[1], lineRange))
    ELSE IF raw
    THEN FENCE_OPEN
         \o Join(<<OLD_FILE \o file, NEW_FILE \o file>> \o RawHunksLines(hunks),
                 NEWLINE)
         \o FENCE_CLOSE
    ELSE Concat(<<FileBanner(file)>> \o ColorHunksParts(hunks))

renderHunks(hunks, file, raw, hasRange, lineRange) ==
    IF hasRange /\ Len(hunks) = 1
    THEN RenderSlice(hunks[1], file, raw, sliceHunkLines(hunks[1], lineRange))
    ELSE IF raw
    THEN FENCE_OPEN
         \o Join(<<OLD_FILE \o file, NEW_FILE \o file>> \o RawHunksLines(hunks),
                 NEWLINE)
         \o FENCE_CLOSE
    ELSE Concat(<<FileBanner(file)>> \o ColorHunksParts(hunks))

WARNING_OPEN ==
    <<"[", "w", "a", "r", "n", "i", "n", "g", ":", " ">>
FILE_NOT_IN_DIFF ==
    <<"f", "i", "l", "e", " ", "n", "o", "t", " ", "i", "n", " ", "d", "i",
      "f", "f">>
HUNK_NOT_FOUND ==
    <<"h", "u", "n", "k", " ", "n", "o", "t", " ", "f", "o", "u", "n", "d">>
DASH_SEP == <<" ", "-", " ">>

renderReference(res, raw) ==
    IF res.status = "resolved"
    THEN renderHunks(res.hunks, res.file, raw, res.hasRange, res.lineRange)
    ELSE IF res.status = "not_found"
    THEN LET reason == IF res.reason = "file_not_in_diff"
                       THEN FILE_NOT_IN_DIFF ELSE HUNK_NOT_FOUND
         IN  IF raw
             THEN NEWLINE \o <<">", " ">> \o WARNING_OPEN \o res.file
                  \o DASH_SEP \o reason \o <<"]">> \o NEWLINE
             ELSE NEWLINE \o INDENT \o YELLOW \o WARNING_OPEN \o res.file
                  \o DASH_SEP \o reason \o <<"]">> \o RESET \o NEWLINE
    ELSE REF_START \o res.raw \o REF_END

\* cli.ts, main: function render(token)
render(token, d, raw) ==
    IF token.type = "text" THEN token.content
    ELSE renderReference(resolveReference(token.content, d), raw)

-----------------------------------------------------------------------------
(* Observation of the token stream *)

RECURSIVE Coalesce(_, _)
\* log extended by toks, adjacent text tokens joined into one
Coalesce(log, toks) ==
    IF toks = <<>> THEN log
    ELSE LET t == Head(toks)
             n == Len(log)
         IN  IF n > 0 /\ log[n].type = "text" /\ t.type = "text"
             THEN Coalesce([log EXCEPT ![n] =
                               TextToken(log[n].content \o t.content)],
                           Tail(toks))
             ELSE Coalesce(Append(log, t), Tail(toks))

\* a token written back as source text
TokenSource(t) ==
    IF t.type = "ref" THEN REF_START \o t.content \o REF_END ELSE t.content

RECURSIVE TokensSource(_)
TokensSource(toks) ==
    IF toks = <<>> THEN <<>>
    ELSE TokenSource(Head(toks)) \o TokensSource(Tail(toks))

\* a push took the "ref too long" branch: only that branch returns a text
\* token equal to REF_START
TookTooLong(toks) ==
    \E k \in 1..Len(toks) : toks[k].type = "text" /\ toks[k].content = REF_START

-----------------------------------------------------------------------------
(* Narration texts of the tokenizer specification *)

MaxPieces == 4
MaxChunk == 6
FillSpread == 3

Pieces == { <<"[">>, REF_START, <<"]">>, <<"a">> }

RECURSIVE PieceSeqs(_)
PieceSeqs(n) ==
    IF n = 0 THEN { <<>> }
    ELSE LET shorter == PieceSeqs(n - 1)
         IN  shorter \cup {p \o s : p \in Pieces, s \in {x \in shorter : TRUE}}

ShortTexts == PieceSeqs(MaxPieces)

Fill(n) == [k \in 1..n |-> "x"]

Marker(body) == REF_START \o body \o REF_END

\* an opener followed by a long run without a closer, then a tail
FillLens == (MAX_REF_LENGTH - 9)..(MAX_REF_LENGTH - 9 + FillSpread)
LongPres == { <<>>, <<"a", "[">> }
LongTails == { <<>>, <<"]">>, REF_END, <<"a">> \o REF_END,
               Marker(<<"a">>), Marker(<<"a">>) \o <<"a", "]">>,
               <<"[">> \o Marker(<<"[">>) }
LongText(pre, n, tail) == pre \o REF_START \o Fill(n) \o tail
LongTexts == {LongText(pre, n, tail) :
                 pre \in LongPres, n \in FillLens, tail \in LongTails}

TokTexts == ShortTexts \cup LongTexts

\* the chunk lengths the provider may yield next
\* a stream that yields nothing while a prompt is waiting for its answer
ChunkLensAfterAnswer(r) ==
    {n \in 1..Len(r) : cpc # "prompt" /\ (n <= MaxChunk \/ n >= Len(r) - MaxChunk)}

\* the sizes of the chunk the stream may yield next
ChunkLens(r) ==
    {n \in 1..Len(r) : n <= MaxChunk \/ n >= Len(r) - MaxChunk}

-----------------------------------------------------------------------------
(* The tokenizer driven by a chunked stream: push per chunk, then flush *)

NoSrc == [files |-> <<>>, newlineAtEnd |-> FALSE]

\* the variables of the diff pipeline while it is not modelled
DiffIdle ==
    /\ src = NoSrc
    /\ rawDiff = <<>>
    /\ diff = <<>>
    /\ lineCount = 0
    /\ enriched = <<>>

\* the variables of the tokenizer before any chunk
TokIdle ==
    /\ text = <<>>
    /\ rest = <<>>
    /\ buffer = <<>>
    /\ inRef = FALSE
    /\ emitted = <<>>
    /\ lastTokens = <<>>
    /\ gaveUp = FALSE

\* the variables of the resolver while it is not modelled
NoResolved ==
    [status |-> "none", file |-> <<>>, reason |-> "", hunks |-> <<>>,
     hasRange |-> FALSE, lineRange |-> NoRange, raw |-> <<>>]
ResIdle ==
    /\ refSpec = [form |-> "none", path |-> <<>>, n |-> 0, m |-> 0, x |-> 0,
                  y |-> 0, raw |-> <<>>]
    /\ ref = <<>>
    /\ resolved = NoResolved
    /\ rendered = <<>>

\* the variables of paged mode while it is not modelled
PagedIdle ==
    /\ blocks = <<>>
    /\ sawRef = FALSE
    /\ started = FALSE
    /\ done = FALSE
    /\ handled = <<>>

\* the foreground loop of paged mode while it is not modelled
ConIdle ==
    /\ curBlock = 0
    /\ curChars = 0
    /\ cpc = "none"
    /\ shown = <<>>
    /\ acked = <<>>
    /\ prompts = <<>>

\* the outcome of the run while it is not modelled
RunIdle ==
    /\ exitCode = -1
    /\ calls = <<>>

Init ==
    /\ text \in TokTexts
    /\ rest = text
    /\ buffer = <<>>
    /\ inRef = FALSE
    /\ emitted = <<>>
    /\ lastTokens = <<>>
    /\ gaveUp = FALSE
    /\ pc = "run"
    /\ DiffIdle
    /\ rawMode = FALSE
    /\ ResIdle
    /\ PagedIdle
    /\ ConIdle
    /\ paged = FALSE
    /\ RunIdle

Push ==
    /\ pc = "run"
    /\ \E n \in ChunkLens(rest) :
         LET r == ParserPush(buffer, inRef, Slice(rest, 0, n))
         IN  /\ rest' = SliceFrom(rest, n)
             /\ buffer' = r.buffer
             /\ inRef' = r.inRef
             /\ lastTokens' = r.tokens
             /\ emitted' = Coalesce(emitted, r.tokens)
             /\ gaveUp' = (gaveUp \/ TookTooLong(r.tokens))
    /\ UNCHANGED <<text, pc, diffVars, rawMode, resVars, pagedVars,
                   conVars, runVars>>

Flush ==
    /\ pc = "run"
    /\ rest = <<>>
    /\ LET r == ParserFlush(buffer, inRef)
       IN  /\ buffer' = r.buffer
           /\ inRef' = r.inRef
           /\ lastTokens' = r.tokens
           /\ emitted' = Coalesce(emitted, r.tokens)
    /\ pc' = "done"
    /\ UNCHANGED <<text, rest, gaveUp, diffVars, rawMode, resVars, pagedVars,
                   conVars, runVars>>

Next == Push \/ Flush

Spec == Init /\ [][Next]_vars

-----------------------------------------------------------------------------
(* The tokenizer with flush called at any time, and used again after it *)

InitFlush ==
    /\ text \in ShortTexts
    /\ rest = text
    /\ buffer = <<>>
    /\ inRef = FALSE
    /\ emitted = <<>>
    /\ lastTokens = <<>>
    /\ gaveUp = FALSE
    /\ pc = "run"
    /\ DiffIdle
    /\ rawMode = FALSE
    /\ ResIdle
    /\ PagedIdle
    /\ ConIdle
    /\ paged = FALSE
    /\ RunIdle

\* push(chunk), the latest call having been a flush
PushAfterFlush ==
    /\ pc = "flushed"
    /\ \E n \in ChunkLens(rest) :
         LET r == ParserPush(buffer, inRef, Slice(rest, 0, n))
         IN  /\ rest' = SliceFrom(rest, n)
             /\ buffer' = r.buffer
             /\ inRef' = r.inRef
             /\ lastTokens' = r.tokens
             /\ emitted' = Coalesce(emitted, r.tokens)
             /\ gaveUp' = (gaveUp \/ TookTooLong(r.tokens))
    /\ pc' = "run"
    /\ UNCHANGED <<text, diffVars, rawMode, resVars, pagedVars, conVars,
                   runVars>>

\* flush(), at any time
FlushNow ==
    /\ pc \in {"run", "flushed"}
    /\ LET r == ParserFlush(buffer, inRef)
       IN  /\ buffer' = r.buffer
           /\ inRef' = r.inRef
           /\ lastTokens' = r.tokens
           /\ emitted' = Coalesce(emitted, r.tokens)
    /\ pc' = "flushed"
    /\ UNCHANGED <<text, rest, gaveUp, diffVars, rawMode, resVars, pagedVars,
                   conVars, runVars>>

NextFlush == Push \/ PushAfterFlush \/ FlushNow

SpecFlush == InitFlush /\ [][NextFlush]_vars

-----------------------------------------------------------------------------
(* Unified diffs given to the run *)

MaxHunks == 2
MaxFollow == 1

SrcLine(type, content) == [type |-> type, content |-> content]

\* hunk bodies: "blank" is a context line written as a truly empty line,
\* "marker" is git's '\ No newline at end of file' line
NO_NEWLINE_MARKER ==
    <<"\\", " ", "N", "o", " ", "n", "e", "w", "l", "i", "n", "e">>
SrcBodies ==
    { <<SrcLine("add", <<"x">>)>>,
      <<SrcLine("context", <<"x">>), SrcLine("delete", <<"y">>)>>,
      <<SrcLine("delete", <<"-", "-", "q">>), SrcLine("add", <<"+", "+", "q">>)>>,
      <<SrcLine("blank", <<>>), SrcLine("add", <<"x">>),
        SrcLine("marker", <<>>)>> }

RECURSIVE BodySeqs(_, _)
\* the sequences of at most n bodies from the set
BodySeqs(bodies, n) ==
    IF n = 0 THEN { <<>> }
    ELSE LET shorter == BodySeqs(bodies, n - 1)
         IN  shorter \cup {<<b>> \o q : b \in bodies, q \in shorter}

FirstPath == <<"a">>
FollowPaths == << <<"b">>, <<"c">>, <<"d">> >>
FollowHunks == { <<>>, << <<SrcLine("add", <<"x">>)>> >> }

RECURSIVE FollowSeqs(_)
\* the files that may follow the first one: at most n, with paths b, c, ..
FollowSeqs(n) ==
    IF n = 0 THEN { <<>> }
    ELSE LET shorter == FollowSeqs(n - 1)
         IN  shorter \cup
             {Append(q, [path |-> FollowPaths[n], hunks |-> h]) :
                 q \in {x \in shorter : Len(x) = n - 1}, h \in FollowHunks}

DiffSrcs ==
    {[files |-> <<[path |-> FirstPath, hunks |-> h]>> \o follow,
      newlineAtEnd |-> nl] :
        h \in BodySeqs(SrcBodies, MaxHunks), follow \in FollowSeqs(MaxFollow),
        nl \in BOOLEAN}

IsOld(l) == l.type \in {"delete", "context", "blank"}
IsNew(l) == l.type \in {"add", "context", "blank"}
CountOf(lines, P(_)) == Cardinality({k \in 1..Len(lines) : P(lines[k])})

\* the range header of the k-th hunk of a file: '@@ -k,old +k,new @@'
SrcHeader(k, body) ==
    HUNK_AT \o <<" ", "-">> \o ToDigits(k) \o <<",">>
    \o ToDigits(CountOf(body, IsOld)) \o <<" ", "+">> \o ToDigits(k) \o <<",">>
    \o ToDigits(CountOf(body, IsNew)) \o <<" ">> \o HUNK_AT

\* a body line as the diff text has it
SrcRawLine(l) ==
    IF l.type = "add" THEN PLUS \o l.content
    ELSE IF l.type = "delete" THEN MINUS \o l.content
    ELSE IF l.type = "context" THEN SPACE \o l.content
    ELSE IF l.type = "blank" THEN <<>>
    ELSE NO_NEWLINE_MARKER

SrcHunkLines(k, body) ==
    <<SrcHeader(k, body)>> \o [j \in 1..Len(body) |-> SrcRawLine(body[j])]

RECURSIVE SrcHunksLines(_, _)
SrcHunksLines(hunks, k) ==
    IF k > Len(hunks) THEN <<>>
    ELSE SrcHunkLines(k, hunks[k]) \o SrcHunksLines(hunks, k + 1)

\* the lines of one file: 'diff --git a/p b/p', '--- a/p', '+++ b/p', hunks
SrcFileLines(f) ==
    <<DIFF_GIT_A \o f.path \o B_SEP \o f.path,
      MINUS3 \o <<" ", "a", "/">> \o f.path,
      PLUS3 \o B_SEP \o f.path>>
    \o SrcHunksLines(f.hunks, 1)

RECURSIVE SrcLines(_)
SrcLines(files) ==
    IF files = <<>> THEN <<>>
    ELSE SrcFileLines(Head(files)) \o SrcLines(Tail(files))

\* the text of the diff
SrcText(d) ==
    Join(SrcLines(d.files), NEWLINE)
    \o (IF d.newlineAtEnd THEN NEWLINE ELSE <<>>)

-----------------------------------------------------------------------------
(* main, up to the narration: parseDiff, countDiffLines, enrichDiff *)

MAX_DIFF_LINES == 4000

InitDiff ==
    /\ src \in DiffSrcs
    /\ rawDiff = SrcText(src)
    /\ diff = <<>>
    /\ lineCount = 0
    /\ enriched = <<>>
    /\ pc = "start"
    /\ TokIdle
    /\ rawMode = FALSE
    /\ ResIdle
    /\ PagedIdle
    /\ ConIdle
    /\ paged = FALSE
    /\ RunIdle

Parse ==
    /\ pc = "start"
    /\ diff' = parseDiff(rawDiff)
    /\ lineCount' = countDiffLines(diff')
    /\ pc' = "parsed"
    /\ UNCHANGED <<src, rawDiff, enriched, tokVars, rawMode, resVars, pagedVars,
                   conVars, runVars>>

Enrich ==
    /\ pc = "parsed"
    /\ lineCount <= MAX_DIFF_LINES
    /\ enriched' = enrichDiff(diff)
    /\ pc' = "enriched"
    /\ UNCHANGED <<src, rawDiff, diff, lineCount, tokVars, rawMode, resVars,
                   pagedVars,
                   conVars, runVars>>

NextDiff == Parse \/ Enrich

SpecDiff == InitDiff /\ [][NextDiff]_vars

-----------------------------------------------------------------------------
(* parseDiff and enrichDiff on arbitrary sequences of lines *)

MaxLines == 4

LINE_A == DIFF_GIT_A \o <<"a">> \o B_SEP \o <<"a">>
LINE_B == DIFF_GIT_A \o <<"b">> \o B_SEP \o <<"b">>
\* a file header without the a/ and b/ paths
LINE_X == DIFF_GIT \o <<"x">>
LINE_AT == HUNK_AT \o <<" ", "-", "1", " ", "+", "1", " ">> \o HUNK_AT
LINE_ADD == <<"+", "x">>
LINE_OTHER == <<"B", "i", "n", "a", "r", "y">>

AnyLines == {LINE_A, LINE_B, LINE_X, LINE_AT, LINE_ADD, LINE_OTHER, <<>>}

\* the sequences of at most n of these lines
LineSeqs(n) == UNION {[1..k -> AnyLines] : k \in 0..n}

InitLines ==
    /\ src = NoSrc
    /\ \E ls \in LineSeqs(MaxLines) : rawDiff = Join(ls, NEWLINE)
    /\ diff = <<>>
    /\ lineCount = 0
    /\ enriched = <<>>
    /\ pc = "start"
    /\ TokIdle
    /\ rawMode = FALSE
    /\ ResIdle
    /\ PagedIdle
    /\ ConIdle
    /\ paged = FALSE
    /\ RunIdle

NextLines == Parse \/ Enrich

SpecLines == InitLines /\ [][NextLines]_vars

-----------------------------------------------------------------------------
(* References given to resolveReference *)

MaxBody == 6
MaxRefHunk == 4
MaxRefLine == 10

LineNames == <<"p", "q", "r", "s", "t", "u", "v", "w">>
BodyLineType(k) ==
    IF k % 3 = 1 THEN "context" ELSE IF k % 3 = 2 THEN "delete" ELSE "add"
\* a hunk body of n lines: context, delete, add, context, ..
Body(n) ==
    [k \in 1..n |->
        SrcLine(BodyLineType(k), <<LineNames[((k - 1) % Len(LineNames)) + 1]>>)]
\* a body whose two lines read '---q' and '+++q' in the diff text
DroppedBody ==
    <<SrcLine("delete", <<"-", "-", "q">>), SrcLine("add", <<"+", "+", "q">>)>>

\* file a with three hunks, alone or followed by file b
ResolveSrcs ==
    {[files |-> <<[path |-> FirstPath,
                   hunks |-> <<Body(n), DroppedBody, Body(2)>>]>> \o follow,
      newlineAtEnd |-> FALSE] :
        n \in 1..MaxBody,
        follow \in { <<>>, <<[path |-> <<"b">>, hunks |-> <<Body(1)>>]>> }}

RefSpecOf(form, path, n, m, x, y, raw) ==
    [form |-> form, path |-> path, n |-> n, m |-> m, x |-> x, y |-> y,
     raw |-> raw]
NoRefSpec == RefSpecOf("none", <<>>, 0, 0, 0, 0, <<>>)

RefPaths == { <<"a">>, <<"b">>, <<"c">> }

\* texts outside the reference grammar
MalformedTexts ==
    { <<"a", ":", "l", "i", "n", "e", ":", "9">>,
      <<"a">> \o HUNK_SEP,
      <<"a">> \o HUNK_SEP \o <<"x">>,
      <<"a">> \o HUNK_SEP \o <<"1", "-">>,
      <<"a">> \o HUNK_SEP \o <<"-", "1">>,
      <<"a">> \o HUNK_SEP \o <<"1", ":", "L">>,
      <<"a">> \o HUNK_SEP \o <<"1", ":", "5">>,
      <<"a">> \o HUNK_SEP \o <<"1", ":", "L", "2", "-">>,
      <<"a", ":", "H", "u", "n", "k", ":", "1">>,
      HUNK_SEP \o <<"1">> }

RefSpecs ==
    {RefSpecOf("file", p, 0, 0, 0, 0, <<>>) : p \in RefPaths}
    \cup {RefSpecOf("hunk", p, n, 0, 0, 0, <<>>) :
             p \in RefPaths, n \in 0..MaxRefHunk}
    \cup {RefSpecOf("range", p, n, m, 0, 0, <<>>) :
             p \in RefPaths, n \in 0..MaxRefHunk, m \in 0..MaxRefHunk}
    \cup {RefSpecOf("lines", <<"c">>, n, 0, x, y, <<>>) :
             n \in 0..1, x \in 1..2, y \in 1..2}
    \cup {RefSpecOf("rangelines", <<"c">>, 1, m, 1, 2, <<>>) : m \in 1..2}
    \cup {RefSpecOf("line", <<"a">>, n, 0, x, 0, <<>>) :
             n \in 1..2, x \in 0..MaxRefLine}
    \cup {RefSpecOf("lines", <<"a">>, 1, 0, x, y, <<>>) :
             x \in 0..MaxRefLine, y \in 0..MaxRefLine}
    \cup {RefSpecOf("rangelines", <<"a">>, 1, m, 1, 2, <<>>) : m \in 1..2}
    \cup {RefSpecOf("malformed", <<>>, 0, 0, 0, 0, t) : t \in MalformedTexts}

\* the reference as the narration writes it
RefText(rs) ==
    LET hunkPart == rs.path \o HUNK_SEP \o ToDigits(rs.n)
        linePart == COLON_L \o ToDigits(rs.x)
    IN  CASE rs.form = "file" -> rs.path
          [] rs.form = "hunk" -> hunkPart
          [] rs.form = "range" -> hunkPart \o MINUS \o ToDigits(rs.m)
          [] rs.form = "line" -> hunkPart \o linePart
          [] rs.form = "lines" ->
                hunkPart \o linePart \o MINUS \o ToDigits(rs.y)
          [] rs.form = "rangelines" ->
                hunkPart \o MINUS \o ToDigits(rs.m) \o linePart \o MINUS
                \o ToDigits(rs.y)
          [] OTHER -> rs.raw

-----------------------------------------------------------------------------
(* main up to one rendered reference: render(token) for a ref token *)

InitResolve ==
    /\ src \in ResolveSrcs
    /\ rawDiff = SrcText(src)
    /\ diff = <<>>
    /\ lineCount = 0
    /\ enriched = <<>>
    /\ rawMode \in BOOLEAN
    /\ refSpec \in RefSpecs
    /\ ref = RefText(refSpec)
    /\ resolved = NoResolved
    /\ rendered = <<>>
    /\ pc = "start"
    /\ TokIdle
    /\ PagedIdle
    /\ ConIdle
    /\ paged = FALSE
    /\ RunIdle

Resolve ==
    /\ pc = "enriched"
    /\ refSpec # NoRefSpec
    /\ resolved' = resolveReference(ref, diff)
    /\ pc' = "resolved"
    /\ UNCHANGED <<tokVars, diffVars, rawMode, refSpec, ref, rendered,
                   pagedVars,
                   conVars, runVars>>

Render ==
    /\ pc = "resolved"
    /\ rendered' = renderReference(resolved, rawMode)
    /\ pc' = "rendered"
    /\ UNCHANGED <<tokVars, diffVars, rawMode, refSpec, ref, resolved,
                   pagedVars,
                   conVars, runVars>>

NextResolve == Parse \/ Enrich \/ Resolve \/ Render

SpecResolve == InitResolve /\ [][NextResolve]_vars

-----------------------------------------------------------------------------
(* renderHunks called on the result of resolveReference, as main does, or
   directly on hunks of the index with or without a line range *)

MaxDirectLine == 3

InitRender ==
    /\ src \in ResolveSrcs
    /\ rawDiff = SrcText(src)
    /\ diff = <<>>
    /\ lineCount = 0
    /\ enriched = <<>>
    /\ rawMode \in BOOLEAN
    /\ ResIdle
    /\ pc = "start"
    /\ TokIdle
    /\ PagedIdle
    /\ ConIdle
    /\ paged = FALSE
    /\ RunIdle

\* the arguments of a direct call on the first hunks of file f
DirectArgsOf(f) ==
    {[file |-> f.path, hunks |-> SubSeq(f.hunks, 1, n), hasRange |-> hr,
      lineRange |-> IF hr THEN [start |-> Min(s, e), end |-> Max(s, e)]
                    ELSE NoRange] :
        n \in 0..Len(f.hunks), hr \in BOOLEAN,
        s \in 1..MaxDirectLine, e \in 1..MaxDirectLine}

DirectArgs == UNION {DirectArgsOf(diff[k]) : k \in 1..Len(diff)}

\* renderHunks({ hunks, file, raw, lineRange })
CallRenderHunks ==
    /\ pc = "enriched"
    /\ refSpec = NoRefSpec
    /\ \E a \in DirectArgs :
         /\ resolved' =
               IF a.hasRange
               THEN ResolvedRange(a.file, a.hunks, a.lineRange.start,
                                  a.lineRange.end)
               ELSE Resolved(a.file, a.hunks)
         /\ rendered' = renderHunks(a.hunks, a.file, rawMode, a.hasRange,
                                    a.lineRange)
    /\ pc' = "rendered"
    /\ UNCHANGED <<tokVars, diffVars, rawMode, refSpec, ref, pagedVars,
                   conVars, runVars>>

NextRender == NextResolve \/ CallRenderHunks

\* a run of main on one reference, or a direct call
InitRenderOrResolve == InitResolve \/ InitRender

SpecRender == InitRenderOrResolve /\ [][NextRender]_vars

-----------------------------------------------------------------------------
(* resolveReference called again and again on the index of one run *)

MaxCalls == 3

\* a file, a hunk, a hunk range, lines of a hunk, a file and a hunk that the
\* index does not have
CallRefs ==
    { <<"a">>,
      <<"a">> \o HUNK_SEP \o <<"1">>,
      <<"a">> \o HUNK_SEP \o <<"1", "-", "2">>,
      <<"a">> \o HUNK_SEP \o <<"3">> \o COLON_L \o <<"1", "-", "2">>,
      <<"c">>,
      <<"a">> \o HUNK_SEP \o <<"9">> }

InitCalls ==
    /\ src \in ResolveSrcs
    /\ rawDiff = SrcText(src)
    /\ diff = parseDiff(rawDiff)
    /\ lineCount = countDiffLines(diff)
    /\ enriched = enrichDiff(diff)
    /\ rawMode = FALSE
    /\ ResIdle
    /\ pc = "enriched"
    /\ TokIdle
    /\ PagedIdle
    /\ ConIdle
    /\ paged = FALSE
    /\ RunIdle

\* resolveReference({ ref, diff }): it reads the index and returns a result
CallResolve ==
    /\ pc = "enriched"
    /\ Len(calls) < MaxCalls
    /\ \E r \in CallRefs :
         /\ ref' = r
         /\ resolved' = resolveReference(r, diff)
         /\ calls' = Append(calls, [ref |-> r, result |-> resolved'])
    /\ UNCHANGED <<tokVars, diffVars, rawMode, refSpec, rendered, pagedVars,
                   conVars, paged, exitCode, pc>>

NextCalls == CallResolve

SpecCalls == InitCalls /\ [][NextCalls]_vars

-----------------------------------------------------------------------------
(* main, paged mode: the background task that builds the blocks *)

\* the characters String.prototype.trim removes, as far as they are used
WhiteSpace == {" ", "\t", "\n", "\r", "\f"}

\* s.trim()
Trim(s) ==
    LET keep == {k \in 1..Len(s) : s[k] \notin WhiteSpace}
    IN  IF keep = {} THEN <<>>
        ELSE SubSeq(s, CHOOSE k \in keep : \A j \in keep : k <= j,
                       CHOOSE k \in keep : \A j \in keep : k >= j)

NewBlock == [content |-> <<>>, files |-> {}]

\* a split at every text token after a ref, whitespace-only ones included
StartsBlockOnAnyText(saw, token) == token.type = "text" /\ saw

\* a split at every text with a non-whitespace character, ref seen or not
StartsBlockWithoutRef(saw, token) ==
    token.type = "text" /\ Trim(token.content) # <<>>

\* else if (sawRef && token.content.trim())
StartsBlock(saw, token) ==
    token.type = "text" /\ saw /\ Trim(token.content) # <<>>

\* a producer that assigns where the code appends: content = render(token)
AppendRenderedOverwriting(st, token, from, d, raw) ==
    LET last == Len(st.blocks)
    IN  [st EXCEPT
           !.blocks[last].content = render(token, d, raw),
           !.handled = Append(@, [type |-> token.type, content |-> token.content,
                               file |-> token.file, from |-> from,
                               block |-> last,
                               offset |-> Len(st.blocks[last].content)])]

\* blocks[blocks.length - 1].content += render(token), and the log entry
AppendRendered(st, token, from, d, raw) ==
    LET last == Len(st.blocks)
    IN  [st EXCEPT
           !.blocks[last].content = @ \o render(token, d, raw),
           !.handled = Append(@, [type |-> token.type, content |-> token.content,
                               file |-> token.file, from |-> from,
                               block |-> last,
                               offset |-> Len(st.blocks[last].content)])]

\* a producer that also starts a block at a ref token that follows a ref
HandleTokenSplittingAtRef(st, token, d, raw) ==
    LET st0 ==
          IF token.type = "ref" /\ st.sawRef
          THEN [st EXCEPT !.blocks = Append(@, NewBlock)]
          ELSE st
        st1 ==
          IF token.type = "ref"
          THEN [st0 EXCEPT !.sawRef = TRUE,
                           !.blocks[Len(st0.blocks)].files = @ \cup {token.file}]
          ELSE IF StartsBlock(st.sawRef, token)
          THEN [st EXCEPT !.blocks = Append(@, NewBlock), !.sawRef = FALSE]
          ELSE st
    IN  AppendRendered(st1, token, "push", d, raw)

\* the body of: for (const token of parser.push(chunk))
HandleToken(st, token, d, raw) ==
    LET st1 ==
          IF token.type = "ref"
          THEN [st EXCEPT !.sawRef = TRUE,
                          !.blocks[Len(st.blocks)].files = @ \cup {token.file}]
          ELSE IF StartsBlock(st.sawRef, token)
          THEN [st EXCEPT !.blocks = Append(@, NewBlock), !.sawRef = FALSE]
          ELSE st
    IN  AppendRendered(st1, token, "push", d, raw)

RECURSIVE HandleTokens(_, _, _, _)
HandleTokens(st, tokens, d, raw) ==
    IF tokens = <<>> THEN st
    ELSE HandleTokens(HandleToken(st, Head(tokens), d, raw), Tail(tokens),
                      d, raw)

\* a producer that leaves the tokens of the final flush out of the blocks
AppendFlushedNothing(st, tokens, d, raw) == st

RECURSIVE AppendFlushed(_, _, _, _)
\* for (const token of parser.flush()) blocks[..].content += render(token)
AppendFlushed(st, tokens, d, raw) ==
    IF tokens = <<>> THEN st
    ELSE AppendFlushed(AppendRendered(st, Head(tokens), "flush", d, raw),
                       Tail(tokens), d, raw)

HELLO == <<"h", "e", "l", "l", "o">>
WORLD == <<"w", "o", "r", "l", "d">>
DONE == <<"d", "o", "n", "e">>

\* the narrations of the paged runs
PagedTexts ==
    { Marker(<<"a">>) \o Marker(<<"b">>) \o SPACE \o HELLO
        \o Marker(<<"c">>) \o WORLD,
      Marker(<<"a">>) \o DONE,
      Marker(<<"a">>) \o Marker(<<"b">>) \o SPACE \o HELLO
        \o Marker(<<"c">>) \o WORLD \o SPACE \o HELLO,
      Marker(<<"a">>) \o SPACE \o HELLO \o SPACE \o WORLD,
      HELLO \o SPACE \o Marker(<<"a">> \o HUNK_SEP \o <<"1">>) \o NEWLINE
        \o Marker(<<"b">>) \o NEWLINE,
      HELLO \o WORLD,
      Marker(<<"a">>) \o Marker(<<"b">>),
      HELLO \o REF_START \o <<"a">>,
      Marker(<<"a">>) \o REF_START \o <<"b">>,
      Marker(<<"a">>) \o NEWLINE \o Marker(<<"b">>) \o HELLO \o WORLD }

\* file a with two hunks followed by file b with one
PagedSrcs ==
    { [files |-> <<[path |-> FirstPath, hunks |-> <<Body(1), Body(2)>>],
                   [path |-> <<"b">>, hunks |-> <<Body(1)>>]>>,
       newlineAtEnd |-> TRUE] }

InitPaged ==
    /\ src \in PagedSrcs
    /\ rawDiff = SrcText(src)
    /\ diff = parseDiff(rawDiff)
    /\ lineCount = countDiffLines(diff)
    /\ enriched = enrichDiff(diff)
    /\ rawMode \in BOOLEAN
    /\ text \in PagedTexts
    /\ rest = text
    /\ buffer = <<>>
    /\ inRef = FALSE
    /\ emitted = <<>>
    /\ lastTokens = <<>>
    /\ gaveUp = FALSE
    /\ blocks = <<NewBlock>>
    /\ sawRef = FALSE
    /\ started = FALSE
    /\ done = FALSE
    /\ handled = <<>>
    /\ ResIdle
    /\ ConIdle
    /\ paged = TRUE
    /\ RunIdle
    /\ pc = "stream"

\* one turn of: for await (const chunk of llm.stream(streamArgs))
Produce ==
    /\ pc = "stream"
    /\ paged
    /\ \E n \in ChunkLens(rest) :
         LET r == ParserPush(buffer, inRef, Slice(rest, 0, n))
             st == HandleTokens([blocks |-> blocks, sawRef |-> sawRef,
                                 handled |-> handled], r.tokens, diff, rawMode)
         IN  /\ rest' = SliceFrom(rest, n)
             /\ buffer' = r.buffer
             /\ inRef' = r.inRef
             /\ lastTokens' = r.tokens
             /\ emitted' = Coalesce(emitted, r.tokens)
             /\ gaveUp' = (gaveUp \/ TookTooLong(r.tokens))
             /\ blocks' = st.blocks
             /\ sawRef' = st.sawRef
             /\ handled' = st.handled
    /\ started' = TRUE
    /\ UNCHANGED <<text, diffVars, rawMode, resVars, done, pc,
                   conVars, runVars>>

\* the end of the stream: the flush loop, then done = true
ProducerFlush ==
    /\ pc = "stream"
    /\ paged
    /\ rest = <<>>
    /\ LET r == ParserFlush(buffer, inRef)
           st == AppendFlushed([blocks |-> blocks, sawRef |-> sawRef,
                                handled |-> handled], r.tokens, diff, rawMode)
       IN  /\ buffer' = r.buffer
           /\ inRef' = r.inRef
           /\ lastTokens' = r.tokens
           /\ emitted' = Coalesce(emitted, r.tokens)
           /\ blocks' = st.blocks
           /\ handled' = st.handled
    /\ done' = TRUE
    /\ pc' = "built"
    /\ UNCHANGED <<text, rest, gaveUp, diffVars, rawMode, resVars, sawRef,
                   started,
                   conVars, runVars>>

NextPaged == Produce \/ ProducerFlush

SpecPaged == InitPaged /\ [][NextPaged]_vars

-----------------------------------------------------------------------------
(* cli.ts: the foreground loop of paged mode, continuous mode, and the way
   the run ends *)

\* blocks[i] ?? { content: '', files: new Set() }
BlockAt(bs, i) == IF i < Len(bs) THEN bs[i + 1] ELSE NewBlock

\* a loop that writes one character of the current block per turn
UnprintedOneChar(content, c) == Slice(content, c, c + 1)

\* b.content.slice(c): what the loop writes of the current block
Unprinted(content, c) == SliceFrom(content, c)

\* a loop that takes the block before the last one for the last
HasNextButLast(bs, i) == i < Len(bs) - 2

\* a loop that also asks for ENTER after the last block
HasNextOnLast(bs, i) == i < Len(bs)

\* i < blocks.length - 1
HasNext(bs, i) == i < Len(bs) - 1

\* process.stdout.write(s), s being narration of block i
Written(sh, i, s) ==
    [k \in 1..Max(Len(sh), i + 1) |->
        (IF k <= Len(sh) THEN sh[k] ELSE <<>>) \o (IF k = i + 1 THEN s ELSE <<>>)]

\* waitForEnter({ files: [...blocks[i].files] }) writes its prompt
Prompted(ps, bs, i) == Append(ps, [block |-> i, files |-> BlockAt(bs, i).files])

\* one turn of the while loop, from its condition to its next await, entered
\* with i and c
LoopTurn(i, c) ==
    /\ curBlock' = i
    /\ IF ~done \/ i < Len(blocks)
       THEN /\ IF c < Len(BlockAt(blocks, i).content)
               THEN /\ shown' = Written(shown, i,
                                   Unprinted(BlockAt(blocks, i).content, c))
                    /\ curChars' = Len(BlockAt(blocks, i).content)
               ELSE /\ shown' = shown
                    /\ curChars' = c
            /\ cpc' = IF HasNext(blocks, i) THEN "prompt"
                      ELSE IF done THEN "join" ELSE "sleep"
            /\ prompts' = IF HasNext(blocks, i) THEN Prompted(prompts, blocks, i)
                          ELSE prompts
       ELSE /\ shown' = shown
            /\ curChars' = c
            /\ cpc' = "join"
            /\ prompts' = prompts

\* await new Promise(r => setTimeout(r, 16)) resolves: the next turn
Wake ==
    /\ cpc = "sleep"
    /\ exitCode = -1
    /\ LoopTurn(curBlock, curChars)
    /\ UNCHANGED <<acked, tokVars, diffVars, rawMode, resVars, pagedVars,
                   runVars, pc>>

\* waitForEnter resolves on the 'line' event: the separator, i++, c = 0, and
\* the next turn
Enter ==
    /\ cpc = "prompt"
    /\ exitCode = -1
    /\ acked' = Append(acked, shown[curBlock + 1])
    /\ LoopTurn(curBlock + 1, 0)
    /\ UNCHANGED <<tokVars, diffVars, rawMode, resVars, pagedVars, runVars, pc>>

\* after the loop: await build, console.log('\n'), and main returns
AwaitBuild ==
    /\ cpc = "join"
    /\ pc = "built"
    /\ exitCode = -1
    /\ cpc' = "exited"
    /\ exitCode' = 0
    /\ UNCHANGED <<curBlock, curChars, shown, acked, prompts, tokVars, diffVars,
                   rawMode, resVars, pagedVars, paged, calls, pc>>

\* the strings render returns for tokens, concatenated
RenderAll(tokens, d, raw) ==
    Concat([k \in 1..Len(tokens) |-> render(tokens[k], d, raw)])

\* continuous mode, one turn of: for await (const chunk of llm.stream(..))
Narrate ==
    /\ pc = "stream"
    /\ ~paged
    /\ \E n \in ChunkLens(rest) :
         LET r == ParserPush(buffer, inRef, Slice(rest, 0, n))
         IN  /\ rest' = SliceFrom(rest, n)
             /\ buffer' = r.buffer
             /\ inRef' = r.inRef
             /\ lastTokens' = r.tokens
             /\ emitted' = Coalesce(emitted, r.tokens)
             /\ gaveUp' = (gaveUp \/ TookTooLong(r.tokens))
             /\ shown' = Written(shown, 0, RenderAll(r.tokens, diff, rawMode))
    /\ started' = TRUE
    /\ UNCHANGED <<text, diffVars, rawMode, resVars, blocks, sawRef, done,
                   handled, curBlock, curChars, cpc, acked, prompts, runVars,
                   pc>>

\* continuous mode, the end of the stream: the flush loop, console.log('\n'),
\* and main returns
NarrateEnd ==
    /\ pc = "stream"
    /\ ~paged
    /\ rest = <<>>
    /\ LET r == ParserFlush(buffer, inRef)
       IN  /\ buffer' = r.buffer
           /\ inRef' = r.inRef
           /\ lastTokens' = r.tokens
           /\ emitted' = Coalesce(emitted, r.tokens)
           /\ shown' = Written(shown, 0, RenderAll(r.tokens, diff, rawMode))
    /\ pc' = "built"
    /\ exitCode' = 0
    /\ UNCHANGED <<text, rest, gaveUp, diffVars, rawMode, resVars, pagedVars,
                   curBlock, curChars, cpc, acked, prompts, paged, calls>>

\* what the runtime does with the process when a promise is rejected and
\* nothing handles the rejection: in the 'throw' mode of
\* --unhandled-rejections it ends the process with code 1, in the 'warn' and
\* 'none' modes it lets the process run
UnhandledOutcomes(code) == {1, code}

\* llm.stream throws. Continuous mode: the for await is in main, main rejects
\* and main().catch prints the message and exits with 1. Paged mode: the for
\* await is in the async function of build, so build rejects; nothing has
\* attached a handler to build, done stays false and the loop goes on if
\* the runtime lets it.
StreamThrow ==
    /\ pc = "stream"
    /\ pc' = "failed"
    /\ exitCode' \in (IF paged THEN UnhandledOutcomes(exitCode) ELSE {1})
    /\ UNCHANGED <<tokVars, diffVars, rawMode, resVars, pagedVars, conVars,
                   paged, calls>>

\* the narrations of the runs: three blocks, one block that the flush ends,
\* one block of text
RunTexts ==
    { Marker(<<"a">>) \o <<"h", "i">> \o Marker(<<"b">>) \o <<"y", "o">>
        \o Marker(<<"a">>),
      HELLO \o Marker(<<"a">>) \o WORLD,
      HELLO \o SPACE \o WORLD }

\* main has reached the narration: in paged mode build is waiting for the
\* first chunk and the loop, after a first turn that found nothing to write,
\* for its timer
InitRun ==
    /\ src \in PagedSrcs
    /\ rawDiff = SrcText(src)
    /\ diff = parseDiff(rawDiff)
    /\ lineCount = countDiffLines(diff)
    /\ enriched = enrichDiff(diff)
    /\ rawMode \in BOOLEAN
    /\ text \in RunTexts
    /\ rest = text
    /\ buffer = <<>>
    /\ inRef = FALSE
    /\ emitted = <<>>
    /\ lastTokens = <<>>
    /\ gaveUp = FALSE
    /\ blocks = <<NewBlock>>
    /\ sawRef = FALSE
    /\ started = FALSE
    /\ done = FALSE
    /\ handled = <<>>
    /\ ResIdle
    /\ paged \in BOOLEAN
    /\ curBlock = 0
    /\ curChars = 0
    /\ cpc = IF paged THEN "sleep" ELSE "none"
    /\ shown = <<>>
    /\ acked = <<>>
    /\ prompts = <<>>
    /\ exitCode = -1
    /\ calls = <<>>
    /\ pc = "stream"

NextRun ==
    \/ Produce
    \/ ProducerFlush
    \/ Wake
    \/ Enter
    \/ AwaitBuild
    \/ Narrate
    \/ NarrateEnd
    \/ StreamThrow

SpecRun == InitRun /\ [][NextRun]_vars

\* a chunk is ready: the enabling condition of Produce and of Narrate
ChunkReady == pc = "stream" /\ ChunkLens(rest) # {}

\* a step of Produce or of Narrate: the only steps that shorten rest
ChunkStep == pc = "stream" /\ rest' # rest

\* the stream yields a chunk that is ready: weak fairness of Produce \/ Narrate,
\* with the enabling condition written out
FairChunks == []<>(~ChunkReady) \/ []<><<ChunkStep>>_vars

\* after its last chunk the stream ends or throws
EndOfStream == rest = <<>> /\ (ProducerFlush \/ NarrateEnd \/ StreamThrow)

\* the provider yields its chunks and then ends the stream or fails, and the
\* event loop runs every timer and continuation that is ready. Nothing makes
\* the user answer a prompt.
FairRun ==
    /\ SpecRun
    /\ FairChunks
    /\ WF_vars(EndOfStream)
    /\ WF_vars(Wake)
    /\ WF_vars(AwaitBuild)

\* the same, with a user who answers every prompt
FairAnswered == FairRun /\ WF_vars(Enter)

-----------------------------------------------------------------------------
(* main from the size check to the end of the run, on diffs of about
   MAX_DIFF_LINES lines *)

GuardOver == 2

\* n added lines
AddedLines(n) == [k \in 1..n |-> SrcLine("add", <<"x">>)]

\* file a with two hunks of added lines: MAX_DIFF_LINES - 2 lines, then 1 to
\* 2 + GuardOver lines
GuardSrcs ==
    {[files |-> <<[path |-> FirstPath,
                   hunks |-> <<AddedLines(MAX_DIFF_LINES - 2), AddedLines(n)>>]>>,
      newlineAtEnd |-> FALSE] : n \in 1..(2 + GuardOver)}

\* the index parseDiff returns for the text of a one-file diff of add, delete
\* and context lines that does not end with a newline
ParsedHunk(k, body) ==
    [index |-> k, header |-> SrcHeader(k, body),
     lines |-> [j \in 1..Len(body) |-> DiffLine(body[j].type, body[j].content)]]
ParsedAs(d) ==
    <<[path |-> d.files[1].path,
       hunks |-> [k \in 1..Len(d.files[1].hunks) |->
                     ParsedHunk(k, d.files[1].hunks[k])]]>>

\* a narration of two blocks about the second hunk
GuardTexts ==
    { Marker(FirstPath \o HUNK_SEP \o <<"2">>) \o <<"h", "i">>
        \o Marker(FirstPath \o HUNK_SEP \o <<"2">>) }

\* main after parseDiff and countDiffLines
InitGuard ==
    /\ src \in GuardSrcs
    /\ rawDiff = SrcText(src)
    /\ diff = ParsedAs(src)
    /\ lineCount = countDiffLines(diff)
    /\ enriched = <<>>
    /\ rawMode = FALSE
    /\ pc = "parsed"
    /\ TokIdle
    /\ ResIdle
    /\ PagedIdle
    /\ ConIdle
    /\ paged \in BOOLEAN
    /\ RunIdle

\* if (lineCount > MAX_DIFF_LINES): the messages and process.exit(1)
RejectTooLarge ==
    /\ pc = "parsed"
    /\ lineCount > MAX_DIFF_LINES
    /\ pc' = "rejected"
    /\ exitCode' = 1
    /\ UNCHANGED <<tokVars, diffVars, rawMode, resVars, pagedVars, conVars,
                   paged, calls>>

\* getProvider, createStreamParser, the blocks and the start of build; in
\* paged mode the first turn of the loop finds nothing to write
StartNarration ==
    /\ pc = "enriched"
    /\ text' \in GuardTexts
    /\ rest' = text'
    /\ blocks' = <<NewBlock>>
    /\ cpc' = IF paged THEN "sleep" ELSE "none"
    /\ pc' = "stream"
    /\ UNCHANGED <<buffer, inRef, emitted, lastTokens, gaveUp, diffVars,
                   rawMode, resVars, sawRef, started, done, handled, curBlock,
                   curChars, shown, acked, prompts, runVars>>

NextGuard == RejectTooLarge \/ Enrich \/ StartNarration \/ NextRun

SpecGuard == InitGuard /\ [][NextGuard]_vars

-----------------------------------------------------------------------------
(* Properties of the tokenizer *)

HasRef(toks) == \E k \in 1..Len(toks) : toks[k].type = "ref"

\* the position in toks of its first ref token (HasRef(toks) assumed)
FirstRef(toks) ==
    CHOOSE k \in 1..Len(toks) :
        toks[k].type = "ref" /\ \A j \in 1..(k - 1) : toks[j].type # "ref"

IsPrefix(s, t) == Len(s) <= Len(t) /\ s = SubSeq(t, 1, Len(s))

\* C1: for every text and every split of it into chunks, the tokens of
\* push* + flush, written back as source text in emission order (a ref
\* token as '[[ref:' + content + ']]'), spell the original text exactly.
C1_RoundTrip == pc = "done" => TokensSource(emitted) = text

\* a finished run that emitted a ref token between two text tokens and
\* whose flush returned held-back text
C1_Witness ==
    /\ pc = "done"
    /\ lastTokens # <<>>
    /\ \E k \in 2..(Len(emitted) - 1) : emitted[k].type = "ref"

\* texts with a candidate that never gets its closing ']]'
C7_Unterminated ==
    {LongText(pre, n, tail) : pre \in LongPres,
        n \in {m \in FillLens : Len(REF_START) + m + 1 > MAX_REF_LENGTH},
        tail \in {<<"]">>}}

\* texts pre [[ref: x..x [[ref:a]] post, with the tokens of a run that gave
\* up on the first candidate: text(pre [[ref: x..x), ref(a), text(post)
C7_LaterCases ==
    {[t |-> LongText(pre, n, Marker(<<"a">>) \o post),
      e |-> <<TextToken(pre \o REF_START \o Fill(n)), RefToken(<<"a">>)>>
            \o (IF post = <<>> THEN <<>> ELSE <<TextToken(post)>>)] :
        pre \in LongPres, n \in FillLens, post \in {<<>>, <<"a", "]">>}}

\* C7: when the tokenizer is inside a candidate marker that exceeds 200
\* characters without a closing ']]', push emits the literal '[[ref:' as a
\* text token, leaves candidate state and rescans the remaining buffered
\* text as normal text, so that a later well-formed marker in the same
\* stream is still emitted as a ref token.  As a state predicate:
\*  - no push returns inside a candidate of more than 200 characters;
\*  - once a text whose candidate never closes has been pushed whole, the
\*    run has given up, is out of candidate state, and has emitted the whole
\*    text (its '[[ref:' included) as text but for the 5 characters that
\*    normal scanning holds back;
\*  - a run that gave up on pre [[ref: x..x [[ref:a]] post still ends with
\*    ref(a) as a token of its own.
C7_GiveUp ==
    /\ inRef => Len(buffer) <= MAX_REF_LENGTH
    /\ (pc = "run" /\ rest = <<>> /\ text \in C7_Unterminated) =>
          /\ gaveUp
          /\ ~inRef
          /\ emitted = <<TextToken(Slice(text, 0, SafeLen(text)))>>
          /\ buffer = SliceFrom(text, Len(text) - (Len(REF_START) - 1))
    /\ (pc = "done" /\ gaveUp) =>
          \A c \in C7_LaterCases : text = c.t => emitted = c.e

\* a finished run that gave up on a candidate and still emitted a ref token
C7_Witness ==
    /\ pc = "done"
    /\ gaveUp
    /\ \E c \in C7_LaterCases : text = c.t /\ Len(c.e) = 3

\* the first marker of the text: 0-based start of its '[[ref:' and the
\* offset of its ']]' from there, -1 where there is none
MarkerStart(t) == IndexOf(t, REF_START)
MarkerEnd(t) ==
    IF MarkerStart(t) = -1 THEN -1
    ELSE IndexOf(SliceFrom(t, MarkerStart(t)), REF_END)
HasShortMarker(t) ==
    MarkerEnd(t) # -1 /\ MarkerEnd(t) + Len(REF_END) <= MAX_REF_LENGTH

RECURSIVE Markers(_)
\* the text cut at its markers from left to right: the text before the first
\* '[[ref:', the body up to the first ']]' after it, and so on; a '[[ref:'
\* that never closes is text
Markers(t) ==
    IF t = <<>> THEN <<>>
    ELSE IF MarkerEnd(t) = -1 THEN <<TextToken(t)>>
    ELSE LET p == MarkerStart(t)
             q == MarkerEnd(t)
         IN  (IF p > 0 THEN <<TextToken(Slice(t, 0, p))>> ELSE <<>>)
             \o <<RefToken(Slice(t, p + Len(REF_START), p + q))>>
             \o Markers(SliceFrom(t, p + q + Len(REF_END)))

\* every marker of the text is at most 200 characters long
AllMarkersShort(t) ==
    \A k \in 1..Len(Markers(t)) :
        Markers(t)[k].type = "ref"
        => Len(TokenSource(Markers(t)[k])) <= MAX_REF_LENGTH

\* C8: for a text with a complete marker '[[ref:body]]' of at most 200
\* characters and every chunking of it, no text token ever holds a character
\* of the marker (so never a partial '[[ref:'), and the marker is emitted as
\* exactly one ref token whose content is body.  For the first marker of the
\* text, in every state: the text tokens before the first ref token never
\* spell more than the text before the marker, the first ref token's content
\* is body, and what is emitted after it spells text after the marker.  For
\* all markers: a finished run over a text whose markers are all at most 200
\* characters long has emitted exactly the text cut at its markers.
C8_MarkerIntact ==
    /\ HasShortMarker(text) =>
        LET p == MarkerStart(text)
            q == MarkerEnd(text)
        IN  IF ~HasRef(emitted)
            THEN /\ IsPrefix(TokensSource(emitted), Slice(text, 0, p))
                 /\ pc # "done"
            ELSE LET k == FirstRef(emitted)
                 IN  /\ TokensSource(SubSeq(emitted, 1, k - 1)) = Slice(text, 0, p)
                     /\ emitted[k].content = Slice(text, p + Len(REF_START), p + q)
                     /\ IsPrefix(TokensSource(SubSeq(emitted, k + 1, Len(emitted))),
                                 SliceFrom(text, p + q + Len(REF_END)))
    /\ (pc = "done" /\ AllMarkersShort(text)) => emitted = Markers(text)

\* a marker of exactly 200 characters after the text 'a[': an earlier push
\* emitted 'a[' and held the start of the marker back, and the latest push
\* returned the marker as its only token
C8_Witness ==
    /\ HasShortMarker(text)
    /\ MarkerStart(text) = 2
    /\ MarkerEnd(text) + Len(REF_END) = MAX_REF_LENGTH
    /\ Len(lastTokens) = 1
    /\ lastTokens[1].type = "ref"
    /\ emitted[1] = TextToken(<<"a", "[">>)

-----------------------------------------------------------------------------
(* Properties of the diff parser *)

RECURSIVE ClassifyAll(_)
RECURSIVE FirstCharAll(_)
\* the stored form of a run of body lines
ClassifyAll(lines) ==
    IF lines = <<>> THEN <<>>
    ELSE Classify(Head(lines)) \o ClassifyAll(Tail(lines))

\* the text lines between the j-th range header of the k-th file and the
\* next range header, file header or end of the text
SrcLinesAfterHeader(k, j) ==
    LET body == src.files[k].hunks[j]
        last == k = Len(src.files) /\ j = Len(src.files[k].hunks)
    IN  [i \in 1..Len(body) |-> SrcRawLine(body[i])]
        \o (IF last /\ src.newlineAtEnd THEN << <<>> >> ELSE <<>>)

\* C5: in a diff with several files, every range header that follows a
\* file header produces exactly one hunk in that file's entry, the last hunk
\* of a file that is followed by another file header included, and the lines
\* after a range header up to the next range header or file header are that
\* hunk's lines.
C5_EveryRangeHeaderOneHunk ==
    pc # "start" =>
        \A k \in 1..Len(src.files) :
            /\ MapHas(diff, src.files[k].path)
            /\ Len(MapGet(diff, src.files[k].path).hunks) = Len(src.files[k].hunks)
            /\ \A j \in 1..Len(src.files[k].hunks) :
                  LET h == MapGet(diff, src.files[k].path).hunks[j]
                  IN  /\ h.header = SrcHeader(j, src.files[k].hunks[j])
                      /\ h.lines = ClassifyAll(SrcLinesAfterHeader(k, j))

\* the enriched text with its '[hunk:N] ' markers and the empty separator
\* lines removed; the file banners stay as the file boundaries
StripEnriched(e) ==
    LET lines == Split(e, NEWLINE)
        kept == SelectSeq(lines, LAMBDA l : l # <<>>)
    IN  [k \in 1..Len(kept) |->
            IF StartsWith(kept[k], HUNK_TAG_OPEN)
            THEN SliceFrom(kept[k], IndexOf(kept[k], HUNK_TAG_CLOSE)
                                    + Len(HUNK_TAG_CLOSE))
            ELSE kept[k]]

\* a body line of the original diff by kind and content
SrcBodyLine(l) ==
    IF l.type = "add" THEN <<PLUS \o l.content>>
    ELSE IF l.type = "delete" THEN <<MINUS \o l.content>>
    ELSE IF l.type \in {"context", "blank"} THEN <<SPACE \o l.content>>
    ELSE <<>>

RECURSIVE SrcBodyLines(_)
SrcBodyLines(body) ==
    IF body = <<>> THEN <<>>
    ELSE SrcBodyLine(Head(body)) \o SrcBodyLines(Tail(body))

RECURSIVE SrcHunksContent(_, _)
SrcHunksContent(hunks, k) ==
    IF k > Len(hunks) THEN <<>>
    ELSE <<SrcHeader(k, hunks[k])>> \o SrcBodyLines(hunks[k])
         \o SrcHunksContent(hunks, k + 1)

RECURSIVE SrcContent(_)
\* per file and in order: its banner, then every hunk header and every hunk
\* body line (kind and content) of the original diff
SrcContent(files) ==
    IF files = <<>> THEN <<>>
    ELSE <<BANNER_OPEN \o Head(files).path \o BANNER_CLOSE>>
         \o SrcHunksContent(Head(files).hunks, 1) \o SrcContent(Tail(files))

\* C4: for a valid unified diff, parseDiff, then enrichDiff, then removal of
\* the '[hunk:N] ' markers reproduces, per file and in order, every hunk
\* header and every hunk body line (kind and content) of the original diff.
C4_ParseEnrichRoundTrip ==
    pc = "enriched" => StripEnriched(enriched) = SrcContent(src.files)

-----------------------------------------------------------------------------
(* Properties of the resolver and the renderer *)

\* C2: for every reference text outside the grammar (foo.ts:line:9 for one),
\* resolveReference returns status 'malformed' carrying the raw text, and
\* renderReference then outputs exactly '[[ref:' + raw text + ']]'.
C2_MalformedEchoed ==
    refSpec.form = "malformed" =>
        /\ pc \in {"resolved", "rendered"} => resolved = Malformed(ref)
        /\ pc = "rendered" => rendered = REF_START \o ref \o REF_END

\* the last ordinal a reference path:hunk:N or path:hunk:N-M asks for
LastOrdinal(rs) == IF rs.form = "hunk" THEN rs.n ELSE rs.m

\* C3: for a reference path:hunk:N or path:hunk:N-M with N <= M whose path is
\* in the index, if some ordinal in N..M has no hunk in that file, the result
\* is not_found with reason hunk_not_found and holds no hunks at all.
C3_MissingHunkRejectsAll ==
    ( /\ pc \in {"resolved", "rendered"}
      /\ refSpec.form \in {"hunk", "range"}
      /\ refSpec.n <= LastOrdinal(refSpec)
      /\ MapHas(diff, refSpec.path)
      /\ \E i \in refSpec.n..LastOrdinal(refSpec) :
            \A k \in 1..Len(MapGet(diff, refSpec.path).hunks) :
                MapGet(diff, refSpec.path).hunks[k].index # i )
    => /\ resolved.status = "not_found"
       /\ resolved.reason = "hunk_not_found"
       /\ resolved.file = refSpec.path
       /\ resolved.hunks = <<>>

\* a range whose first ordinal exists and whose last does not was resolved
C3_Witness ==
    /\ pc = "resolved"
    /\ refSpec.form = "range"
    /\ refSpec.n < refSpec.m
    /\ MapHas(diff, refSpec.path)
    /\ HasHunk(MapGet(diff, refSpec.path), refSpec.n)
    /\ ~HasHunk(MapGet(diff, refSpec.path), refSpec.m)
    /\ resolved.status = "not_found"

\* the rendered partial hunk, taken apart again: its header and body lines
ShownLines == Split(rendered, NEWLINE)
ShownHeader ==
    IF rawMode THEN ShownLines[5]
    ELSE Slice(ShownLines[3], Len(INDENT) + Len(DIM),
               Len(ShownLines[3]) - Len(RESET))
ShownBody ==
    IF rawMode THEN SubSeq(ShownLines, 6, Len(ShownLines) - 2)
    ELSE SubSeq(ShownLines, 4, Len(ShownLines) - 1)

\* the k-th count written in a header '@@ -a,b +c,d @@'
HeaderCount(h, k) ==
    LET commas == {i \in 1..Len(h) : h[i] = ","}
        at == CHOOSE i \in commas :
                 Cardinality({j \in commas : j <= i}) = k
    IN  ParseInt(Slice(h, at, at + DigitRun(h, at)))

\* the kind a rendered body line shows
ShownKind(line) ==
    IF rawMode
    THEN IF StartsWith(line, PLUS) THEN "add"
         ELSE IF StartsWith(line, MINUS) THEN "delete"
         ELSE IF StartsWith(line, SPACE) THEN "context" ELSE "none"
    ELSE IF StartsWith(line, INDENT \o GREEN \o PLUS) THEN "add"
         ELSE IF StartsWith(line, INDENT \o RED \o MINUS) THEN "delete"
         ELSE IF StartsWith(line, INDENT \o DIM \o SPACE) THEN "context"
         ELSE "none"
ShownTally(kinds) ==
    Cardinality({k \in 1..Len(ShownBody) : ShownKind(ShownBody[k]) \in kinds})

\* C6: for every hunk and every line range (ranges partly or wholly outside
\* 1..hunk length and an empty hunk included), the old and new counts written
\* in the synthesized slice header equal the number of delete+context lines
\* and of add+context lines among the lines rendered for the slice.
C6_SliceHeaderCounts ==
    (pc = "rendered" /\ resolved.status = "resolved" /\ resolved.hasRange)
    => /\ HeaderCount(ShownHeader, 1) = ShownTally({"delete", "context"})
       /\ HeaderCount(ShownHeader, 2) = ShownTally({"add", "context"})
       /\ ShownTally({"none"}) = (IF rawMode /\ Len(ShownBody) = 1
                                     /\ ShownBody[1] = <<>> THEN 1 ELSE 0)

\* a range that starts inside a hunk of six or more lines and ends past its
\* last line was rendered as a slice of delete, add and context lines
C6_Witness ==
    /\ pc = "rendered"
    /\ resolved.status = "resolved"
    /\ resolved.hasRange
    /\ Len(resolved.hunks[1].lines) >= 6
    /\ resolved.lineRange.start = 4
    /\ resolved.lineRange.end > Len(resolved.hunks[1].lines)
    /\ ShownTally({"delete"}) = 2
    /\ ShownTally({"context"}) = 1
    /\ HeaderCount(ShownHeader, 1) = 3

-----------------------------------------------------------------------------
(* Properties of paged mode *)

\* the tokens handled are [ref][ref][whitespace-only text]["hello"][ref]["world"]
C9_Sequence ==
    /\ Len(handled) = 6
    /\ handled[1].type = "ref"
    /\ handled[2].type = "ref"
    /\ handled[3].type = "text"
    /\ handled[3].content # <<>>
    /\ Trim(handled[3].content) = <<>>
    /\ handled[4].type = "text"
    /\ handled[4].content = HELLO
    /\ handled[5].type = "ref"
    /\ handled[6].type = "text"
    /\ handled[6].content = WORLD

\* what render returns for the k-th handled token
Shown(k) ==
    render([type |-> handled[k].type, content |-> handled[k].content],
           diff, rawMode)

C10_TextAfterRefStartsBlock ==
    \A k \in 2..Len(handled) :
        ( /\ handled[k].type = "text"
          /\ Trim(handled[k].content) # <<>>
          /\ \E j \in 1..(k - 1) :
                handled[j].type = "ref" /\ handled[j].block = handled[k - 1].block )
        => /\ handled[k].block = handled[k - 1].block + 1
           /\ handled[k].offset = 0

-----------------------------------------------------------------------------
(* Properties of the stored hunks *)

\* C17: for every parsed hunk of a valid unified diff, a diff whose text ends
\* with a newline included, the old and new line counts declared in the hunk's
\* header equal the counts derived from its stored lines (old = delete +
\* context, new = add + context).
C17_HeaderCountsMatchLines ==
    pc # "start" =>
        \A f \in 1..Len(diff) : \A h \in 1..Len(diff[f].hunks) :
            /\ HeaderCount(diff[f].hunks[h].header, 1)
                 = countLines(diff[f].hunks[h].lines).oldCount
            /\ HeaderCount(diff[f].hunks[h].header, 2)
                 = countLines(diff[f].hunks[h].lines).newCount

\* what the first character of a hunk line alone makes of the line
FirstCharLine(line) ==
    IF line = <<>> \/ StartsWith(line, SPACE)
    THEN <<DiffLine("context", SliceFrom(line, 1))>>
    ELSE IF StartsWith(line, PLUS)
    THEN <<DiffLine("add", SliceFrom(line, 1))>>
    ELSE IF StartsWith(line, MINUS)
    THEN <<DiffLine("delete", SliceFrom(line, 1))>>
    ELSE <<>>

FirstCharAll(lines) ==
    IF lines = <<>> THEN <<>>
    ELSE FirstCharLine(Head(lines)) \o FirstCharAll(Tail(lines))

\* C18: every line of a hunk whose first character is '+' is stored as an
\* add line whose content is the line without that character, and likewise
\* '-' as a delete line, whatever the rest of the line is (content that
\* begins with '++' or '--' included); a line that begins with a space or is
\* empty is stored as context, and any other line is ignored.
C18_FirstCharDecidesType ==
    pc # "start" =>
        \A f \in 1..Len(diff) : \A h \in 1..Len(diff[f].hunks) :
            diff[f].hunks[h].lines = FirstCharAll(SrcLinesAfterHeader(f, h))

-----------------------------------------------------------------------------
(* Properties of the runs *)

\* C11: in paged mode, under every interleaving of the producer and the
\* consumer, no character of block k+1 is written to the sink before every
\* character of block k has been written and a continuation signal (ENTER)
\* has been received after block k was written in full.
C11_BlockAfterBlockAndEnter ==
    paged =>
        \A k \in 1..(Len(shown) - 1) :
            shown[k + 1] # <<>> =>
                /\ shown[k] = blocks[k].content
                /\ k <= Len(acked)
                /\ acked[k] = blocks[k].content

\* the third block is being written while the producer is still running
C11_Witness ==
    /\ paged
    /\ ~done
    /\ Len(shown) = 3
    /\ shown[3] # <<>>
    /\ Len(acked) = 2

\* every character of the narration has become a token that the producer
\* rendered into a block
AllBuffered ==
    /\ rest = <<>>
    /\ TokensSource(handled) = text
    /\ Concat([k \in 1..Len(blocks) |-> blocks[k].content])
         = Concat([k \in 1..Len(handled) |-> Shown(k)])

\* C12: in paged mode the producer's progress does not depend on the consumer:
\* unless the stream fails, the producer tokenizes, renders and buffers every
\* chunk and sets the stream-finished flag, also in the runs in which no
\* continuation signal is ever delivered and the consumer stays at a prompt.
C12_ProducerIndependent ==
    (paged /\ pc = "stream") ~> (pc = "failed" \/ (done /\ AllBuffered))

\* the producer has finished three blocks while the consumer is still at its
\* first prompt
C12_Witness ==
    /\ paged
    /\ done
    /\ AllBuffered
    /\ Len(blocks) = 3
    /\ cpc = "prompt"
    /\ curBlock = 0
    /\ acked = <<>>

\* what has been written of block k
ShownOf(k) == IF k <= Len(shown) THEN shown[k] ELSE <<>>

\* the loop of paged mode is over
LoopOver == cpc \in {"join", "exited"}

\* C13: if the stream ends normally and every continuation prompt is
\* eventually answered, the consumer eventually terminates, and it leaves its
\* loop only after the producer has finished and every character of every
\* block, the last one included, has been written to the sink.
C13_ConsumerTerminates ==
    /\ [](LoopOver =>
            /\ done
            /\ AllBuffered
            /\ \A k \in 1..Len(blocks) : ShownOf(k) = blocks[k].content)
    /\ ((paged /\ pc = "built") ~> (cpc = "exited" /\ exitCode = 0))

\* a run of three blocks has ended, two prompts answered
C13_Witness ==
    /\ cpc = "exited"
    /\ exitCode = 0
    /\ Len(blocks) = 3
    /\ Len(acked) = 2
    /\ \A k \in 1..3 : ShownOf(k) = blocks[k].content /\ ShownOf(k) # <<>>

RECURSIVE AllLines(_)
\* the lines of all hunks of all files of an index
AllLines(d) ==
    IF d = <<>> THEN <<>>
    ELSE Concat([k \in 1..Len(Head(d).hunks) |-> Head(d).hunks[k].lines])
         \o AllLines(Tail(d))

\* something of the narration has been reached: the enriched text for the
\* provider, the tokenizer, the blocks, or output
NarrationReached ==
    \/ pc \in {"enriched", "stream", "built", "failed"}
    \/ enriched # <<>>
    \/ ~TokIdle
    \/ blocks # <<>>
    \/ started
    \/ shown # <<>>

\* C16: the narration engine is started only when the total number of hunk
\* body lines of the index is at most 4000; when the count exceeds 4000 the
\* run ends with an error before any provider, tokenizer or output of
\* narration is reached.
C16_NarrationWithinLimit ==
    /\ NarrationReached => Len(AllLines(diff)) <= 4000
    /\ (Len(AllLines(diff)) > 4000 /\ pc # "parsed")
         => (pc = "rejected" /\ exitCode = 1 /\ ~NarrationReached)

\* a diff of 4001 lines has been rejected
C16_Witness ==
    /\ Len(AllLines(diff)) = 4001
    /\ pc = "rejected"
    /\ exitCode = 1

\* C19: in every index parseDiff produces, the k-th hunk of each file has
\* index k: the indices of a file are unique and contiguous and start again at
\* 1 for each file.
C19_HunkIndexIsOrdinal ==
    pc # "start" =>
        \A f \in 1..Len(diff) : \A k \in 1..Len(diff[f].hunks) :
            diff[f].hunks[k].index = k

\* a file with two hunks, the second one with lines
C19_Witness ==
    /\ pc # "start"
    /\ Len(diff) = 1
    /\ Len(diff[1].hunks) = 2
    /\ diff[1].hunks[2].lines # <<>>

\* the lines of the text given to parseDiff
InLines == Split(rawDiff, NEWLINE)

\* the path a file header line names
HeaderPath(line) ==
    IF line = LINE_A THEN <<"a">>
    ELSE IF line = LINE_B THEN <<"b">>
    ELSE UNKNOWN

FileHeaders(ls) == {k \in 1..Len(ls) : StartsWith(ls[k], DIFF_GIT)}

\* the k-th line is the last file header of its path, and no range header
\* follows it before the next file header or the end of the text
BareHeader(ls, hs, k) ==
    /\ \A j \in hs : j > k => HeaderPath(ls[j]) # HeaderPath(ls[k])
    /\ \A j \in (k + 1)..Len(ls) :
          StartsWith(ls[j], HUNK_AT) => \E h \in hs : k < h /\ h < j

\* the text from its first file header on
FromFirstHeader(ls, hs) ==
    Join(SubSeq(ls, CHOOSE k \in hs : \A j \in hs : k <= j, Len(ls)), NEWLINE)

\* the index d is what the claim says of the lines ls with file headers hs
TotalOn(d, ls, hs) ==
    /\ \A k \in hs : MapHas(d, HeaderPath(ls[k]))
    /\ \A k \in hs :
          BareHeader(ls, hs, k) => MapGet(d, HeaderPath(ls[k])).hunks = <<>>
    /\ \A f \in 1..Len(d) : \E k \in hs : d[f].path = HeaderPath(ls[k])
    /\ IF hs = {} THEN d = <<>> ELSE d = parseDiff(FromFirstHeader(ls, hs))

\* C20: parseDiff returns an index for every sequence of input lines: each
\* 'diff --git' header yields an entry for its path even when no range header
\* follows it (then with an empty hunk sequence), and range header or body
\* lines before any file header create no hunk and no entry.
C20_TotalOnAnyLines ==
    pc = "parsed" => TotalOn(diff, InLines, FileHeaders(InLines))

\* a range header and a body line, then a file header without hunks, then
\* another file header
C20_Witness ==
    /\ pc = "parsed"
    /\ InLines = <<LINE_AT, LINE_ADD, LINE_X, LINE_A>>
    /\ Len(diff) = 2
    /\ diff[1].hunks = <<>>
    /\ diff[2].hunks = <<>>

-----------------------------------------------------------------------------
(* More properties of the tokenizer *)

\* C21: after every return of push, for any sequence of chunks, the text held
\* back in the tokenizer's buffer is at most 200 characters long, and at most
\* 5 characters long when the tokenizer is not inside a candidate marker.
C21_BufferBounded ==
    /\ Len(buffer) <= 200
    /\ ~inRef => Len(buffer) <= 5

\* a push has returned no token and holds back a candidate of exactly 200
\* characters
C21_Witness ==
    /\ lastTokens = <<>>
    /\ inRef
    /\ Len(buffer) = 200
    /\ rest # <<>>

\* a step of flush
FlushStep == pc' = "flushed"

\* the chunk a step of push took from the narration
ChunkTaken == Slice(rest, 0, Len(rest) - Len(rest'))

\* C22: flush returns all buffered text as one text token (an unterminated
\* candidate verbatim with its opener, never as a ref token) and resets the
\* tokenizer to its initial state: a second flush returns no tokens, and a
\* push after a flush behaves exactly as on a newly created tokenizer.
C22_FlushResets ==
    [][/\ FlushStep =>
            /\ lastTokens' = IF buffer = <<>> THEN <<>>
                             ELSE <<[type |-> "text", content |-> buffer,
                                     file |-> <<>>]>>
            /\ buffer' = <<>>
            /\ inRef' = FALSE
       /\ (FlushStep /\ pc = "flushed") => lastTokens' = <<>>
       /\ (pc = "flushed" /\ pc' = "run") =>
            /\ lastTokens' = ParserPush(<<>>, FALSE, ChunkTaken).tokens
            /\ buffer' = ParserPush(<<>>, FALSE, ChunkTaken).buffer
            /\ inRef' = ParserPush(<<>>, FALSE, ChunkTaken).inRef]_vars

\* an unterminated candidate has been flushed as text and a push has followed
C22_Witness ==
    /\ pc = "run"
    /\ Len(emitted) = 2
    /\ emitted[1].type = "text"
    /\ StartsWith(emitted[1].content, REF_START)
    /\ emitted[2].type = "ref"

-----------------------------------------------------------------------------
(* More properties of resolveReference *)

\* the reference has been resolved
AfterResolve == pc \in {"resolved", "rendered"}

\* the reference is a path followed by a hunk suffix
HasHunkSuffix ==
    refSpec.form \in {"hunk", "range", "line", "lines", "rangelines"}

\* C23: a reference with a hunk suffix whose path is not a key of the index
\* resolves to not_found with reason file_not_in_diff whatever its hunk
\* numbers and line range are; hunk_not_found is reported only for a path of
\* the index.
C23_MissingFileBeforeHunks ==
    AfterResolve =>
        /\ (HasHunkSuffix /\ ~MapHas(diff, refSpec.path)) =>
              /\ resolved.status = "not_found"
              /\ resolved.reason = "file_not_in_diff"
              /\ resolved.file = refSpec.path
        /\ resolved.reason = "hunk_not_found" => MapHas(diff, resolved.file)

\* a hunk range with a line range on a path outside the index
C23_Witness ==
    /\ pc = "resolved"
    /\ refSpec.form = "rangelines"
    /\ ~MapHas(diff, refSpec.path)
    /\ resolved.reason = "file_not_in_diff"

\* the last ordinal a reference asks for
RefLastHunk ==
    IF refSpec.form \in {"range", "rangelines"} THEN refSpec.m ELSE refSpec.n

\* the hunks of file f with an ordinal in n..m, in the order of the file
HunksBetween(f, n, m) ==
    SelectSeq(f.hunks, LAMBDA h : h.index >= n /\ h.index <= m)

\* C24: path:hunk:N-M with N <= M, every ordinal N..M being a hunk of the
\* file, resolves to exactly the hunks N..M in ascending order: M-N+1 hunks,
\* none repeated, none outside the range; path:hunk:N is the case M = N.
C24_RangeIsExactlyNToM ==
    (/\ AfterResolve
     /\ HasHunkSuffix
     /\ MapHas(diff, refSpec.path)
     /\ refSpec.n <= RefLastHunk
     /\ \A i \in refSpec.n..RefLastHunk :
           HasHunk(MapGet(diff, refSpec.path), i))
    => /\ resolved.status = "resolved"
       /\ resolved.file = refSpec.path
       /\ Len(resolved.hunks) = RefLastHunk - refSpec.n + 1
       /\ \A k \in 1..Len(resolved.hunks) :
             resolved.hunks[k].index = refSpec.n + k - 1
       /\ resolved.hunks =
             HunksBetween(MapGet(diff, refSpec.path), refSpec.n, RefLastHunk)

\* hunks 2 to 3 of a file of three hunks
C24_Witness ==
    /\ pc = "resolved"
    /\ refSpec.form = "range"
    /\ refSpec.n = 2
    /\ refSpec.m = 3
    /\ MapHas(diff, refSpec.path)
    /\ Len(MapGet(diff, refSpec.path).hunks) = 3
    /\ Len(resolved.hunks) = 2

\* the reference ends with a line suffix
HasLineSuffix == refSpec.form \in {"line", "lines", "rangelines"}

\* the lines rendered after the two lines that name the file
ShownAfterFile ==
    IF rawMode THEN SubSeq(ShownLines, 5, Len(ShownLines) - 2)
    ELSE SubSeq(ShownLines, 3, Len(ShownLines) - 1)

\* a rendered hunk header line, without its colours
ShownHunkHeader(line) ==
    IF rawMode THEN line
    ELSE Slice(line, Len(INDENT) + Len(DIM), Len(line) - Len(RESET))

RECURSIVE FullKinds(_)
\* what a rendering of whole hunks shows: each header, then each line
FullKinds(hunks) ==
    IF hunks = <<>> THEN <<>>
    ELSE <<Head(hunks).header>>
         \o [k \in 1..Len(Head(hunks).lines) |-> Head(hunks).lines[k].type]
         \o FullKinds(Tail(hunks))

ShownKinds(ls) ==
    [k \in 1..Len(ls) |->
        IF ShownKind(ls[k]) = "none" THEN ShownHunkHeader(ls[k])
        ELSE ShownKind(ls[k])]

\* C25: a resolved result carries a line range exactly when the reference has
\* a line suffix and one hunk was collected; a hunk range of more than one
\* hunk followed by a line suffix resolves to those hunks without a line
\* range; renderHunks slices only when it is given a line range with exactly
\* one hunk, and renders every hunk whole otherwise.
C25_LineRangeOnlyOnOneHunk ==
    /\ (AfterResolve /\ refSpec # NoRefSpec /\ resolved.status = "resolved")
       => /\ resolved.hasRange <=> (HasLineSuffix /\ Len(resolved.hunks) = 1)
          /\ (refSpec.form = "rangelines" /\ refSpec.n < refSpec.m) =>
                resolved.hunks =
                   HunksBetween(MapGet(diff, refSpec.path), refSpec.n,
                                refSpec.m)
    /\ (/\ pc = "rendered"
        /\ resolved.status = "resolved"
        /\ ~(resolved.hasRange /\ Len(resolved.hunks) = 1))
       => ShownKinds(ShownAfterFile) = FullKinds(resolved.hunks)

\* renderHunks was given a line range with two hunks of three lines in all
C25_Witness ==
    /\ pc = "rendered"
    /\ resolved.status = "resolved"
    /\ resolved.hasRange
    /\ Len(resolved.hunks) = 2
    /\ Len(resolved.hunks[1].lines) = 3
    /\ Len(ShownAfterFile) = 5

\* the reference with its two line numbers exchanged
Exchanged(rs) == [rs EXCEPT !.x = rs.y, !.y = rs.x]

\* C26: a single-hunk reference with a line range Lx-Ly resolves to a range
\* with start <= end; Lx-Ly and Ly-Lx resolve to equal results; an inverted
\* range is never reported as not_found or malformed.
C26_InvertedRangeNormalized ==
    (AfterResolve /\ refSpec.form = "lines")
    => /\ resolved.status = "resolved" =>
             /\ resolved.hasRange
             /\ resolved.lineRange.start <= resolved.lineRange.end
             /\ resolved.lineRange.start = Min(refSpec.x, refSpec.y)
             /\ resolved.lineRange.end = Max(refSpec.x, refSpec.y)
       /\ resolved = resolveReference(RefText(Exchanged(refSpec)), diff)
       /\ resolved.status # "malformed"
       /\ (/\ refSpec.x > refSpec.y
           /\ MapHas(diff, refSpec.path)
           /\ HasHunk(MapGet(diff, refSpec.path), refSpec.n))
          => resolved.status = "resolved"

\* lines 7 to 3 of a hunk were asked for
C26_Witness ==
    /\ pc = "resolved"
    /\ refSpec.form = "lines"
    /\ refSpec.x = 7
    /\ refSpec.y = 3
    /\ resolved.status = "resolved"
    /\ resolved.lineRange = [start |-> 3, end |-> 7]

-----------------------------------------------------------------------------
(* Properties of the slice of a hunk *)

\* a reference with a line range has been resolved to one hunk and rendered
SliceRendered ==
    pc = "rendered" /\ resolved.status = "resolved" /\ resolved.hasRange

\* the first and last line asked for, brought into a hunk of len lines
FirstAsked(len, range) == Max(1, Min(range.start, len))
LastAsked(len, range) == Max(FirstAsked(len, range), Min(range.end, len))

\* the 1-based positions of the hunk lines between 0-based lo and hi
Positions(lo, hi) == {k \in 1..hi : k > lo}

\* the slice of lines is the run of positions lo+1..hi, which holds the lines
\* s..e of the hunk, at most 2 lines more on each side, and is not empty
\* unless the hunk is
IsSliceOf(slice, lines, s, e, lo, hi) ==
    /\ lo = Max(0, s - 3)
    /\ hi = Min(Len(lines), e + 2)
    /\ Len(slice) = Cardinality(Positions(lo, hi))
    /\ \A k \in 1..Len(slice) : slice[k] = lines[lo + k]
    /\ \A k \in s..e : k <= Len(lines) => k \in Positions(lo, hi)
    /\ \A k \in Positions(lo, hi) : k >= s - 2 /\ k <= e + 2
    /\ Positions(lo, hi) \subseteq 1..Len(lines)
    /\ Len(lines) >= 1 => slice # <<>>

\* the body lines a rendering shows are the lines of the slice
ShowsSlice(body, slice) ==
    IF slice = <<>> THEN body = (IF rawMode THEN << <<>> >> ELSE <<>>)
    ELSE /\ Len(body) = Len(slice)
         /\ \A k \in 1..Len(slice) :
               /\ ShownKind(body[k]) = slice[k].type
               /\ IndexOf(body[k], slice[k].content) # -1

SliceOfHunk(lines, range, sl) ==
    /\ IsSliceOf(sl.lines, lines, FirstAsked(Len(lines), range),
                 LastAsked(Len(lines), range), sl.sliceStart,
                 sl.sliceStart + Len(sl.lines))
    /\ ShowsSlice(ShownBody, sl.lines)

\* C27: for every hunk and line range, the slice is the contiguous run of hunk
\* lines from 0-based position max(0, s-3) up to but excluding min(len, e+2),
\* with s = clamp(start, 1, len) and e = max(s, min(end, len)): it contains
\* the lines s..e, extends at most 2 lines beyond them on each side, never
\* leaves the hunk, and is not empty when the hunk has a line.
C27_SliceBounds ==
    SliceRendered =>
        SliceOfHunk(resolved.hunks[1].lines, resolved.lineRange,
                    sliceHunkLines(resolved.hunks[1], resolved.lineRange))

\* lines 4 to 4 of a hunk of six lines: the slice is lines 2 to 6
C27_Witness ==
    /\ SliceRendered
    /\ Len(resolved.hunks[1].lines) = 6
    /\ resolved.lineRange = [start |-> 4, end |-> 4]
    /\ Len(ShownBody) = 5

\* the number written after the first sign character of a range header
HeaderStart(h, sign) ==
    LET at == CHOOSE i \in 1..Len(h) :
                 h[i] = sign /\ \A j \in 1..(i - 1) : h[j] # sign
    IN  ParseInt(Slice(h, at, at + DigitRun(h, at)))

\* the lines of a hunk before the slice taken for a range
Preceding(lines, range) ==
    SubSeq(lines, 1, Max(0, FirstAsked(Len(lines), range) - 3))

TypeCount(lines, types) ==
    Cardinality({k \in 1..Len(lines) : lines[k].type \in types})

StartsAdvanced(synth, original, before) ==
    /\ HeaderStart(synth, "-")
          = HeaderStart(original, "-") + TypeCount(before, {"delete", "context"})
    /\ HeaderStart(synth, "+")
          = HeaderStart(original, "+") + TypeCount(before, {"add", "context"})
    /\ before = <<>> =>
          /\ HeaderStart(synth, "-") = HeaderStart(original, "-")
          /\ HeaderStart(synth, "+") = HeaderStart(original, "+")

\* C28: the old and new start numbers of a synthesized slice header are the
\* start numbers of the hunk's own header plus the number of delete and
\* context lines, and of add and context lines, among the hunk lines that
\* precede the slice; a slice that begins at the first line of the hunk keeps
\* the start numbers of the hunk.
C28_SliceHeaderStarts ==
    SliceRendered =>
        StartsAdvanced(ShownHeader, resolved.hunks[1].header,
                       Preceding(resolved.hunks[1].lines, resolved.lineRange))

\* a slice after a context line and a delete line: old start advanced by 2,
\* new start by 1
C28_Witness ==
    /\ SliceRendered
    /\ Len(Preceding(resolved.hunks[1].lines, resolved.lineRange)) = 2
    /\ HeaderStart(ShownHeader, "-")
          = HeaderStart(resolved.hunks[1].header, "-") + 2
    /\ HeaderStart(ShownHeader, "+")
          = HeaderStart(resolved.hunks[1].header, "+") + 1

-----------------------------------------------------------------------------
(* More properties of paged mode *)

\* a token that is a reference or a text of white space only
KeepsBlock(t) == t.type = "ref" \/ Trim(t.content) = <<>>

\* the block a token went to, given the token handled before it
BlockAfter(log, k) == IF k = 1 THEN 1 ELSE log[k - 1].block

\* C29: in paged mode a reference token and a whitespace-only text token
\* never start a new block: a run of reference tokens separated only by
\* whitespace-only text tokens lies in one block, and the number of blocks
\* grows, by one, only on a text token with a non-whitespace character.
C29_OnlyProseStartsBlock ==
    paged =>
      /\ Len(blocks) = (IF handled = <<>> THEN 1
                        ELSE handled[Len(handled)].block)
      /\ \A k \in 1..Len(handled) :
            /\ handled[k].block \in
                  {BlockAfter(handled, k), BlockAfter(handled, k) + 1}
            /\ KeepsBlock(handled[k]) =>
                  handled[k].block = BlockAfter(handled, k)
      /\ \A j \in 1..Len(handled) : \A k \in j..Len(handled) :
            (\A i \in j..k : KeepsBlock(handled[i]))
            => handled[k].block = handled[j].block

\* two references with only a newline between them went to one block, and a
\* later text started the next block
C29_Witness ==
    /\ paged
    /\ Len(handled) >= 4
    /\ \E k \in 1..(Len(handled) - 3) :
          /\ handled[k].type = "ref"
          /\ handled[k + 1].type = "text"
          /\ Trim(handled[k + 1].content) = <<>>
          /\ handled[k + 2].type = "ref"
          /\ handled[k + 2].block = handled[k].block
          /\ handled[k + 3].block = handled[k].block + 1

\* the files of the reference tokens the producer placed in block i (0-based)
FilesPlaced(log, i) ==
    {log[k].file : k \in {j \in 1..Len(log) :
                             log[j].type = "ref" /\ log[j].block = i + 1}}

\* C30: each continuation prompt shown after block i lists exactly the file
\* paths of the reference tokens placed in block i, and that set no longer
\* changes once the prompt is shown: the producer adds files to the last block
\* only.
C30_PromptListsBlockFiles ==
    \A p \in 1..Len(prompts) :
        /\ prompts[p].block = p - 1
        /\ prompts[p].block < Len(blocks) - 1
        /\ prompts[p].files = FilesPlaced(handled, prompts[p].block)
        /\ prompts[p].files = blocks[prompts[p].block + 1].files

\* two prompts were shown, the first listing file a and the second file b,
\* and a reference to file a was placed in a later block
C30_Witness ==
    /\ Len(prompts) = 2
    /\ prompts[1].files = {<<"a">>}
    /\ prompts[2].files = {<<"b">>}
    /\ FilesPlaced(handled, 2) = {<<"a">>}

-----------------------------------------------------------------------------
(* The pause after a block with references *)

\* block k (1-based) holds a reference
HasRefs(bs, k) == bs[k].files # {}

\* the loop has gone past block k: it has written something of a later block,
\* or the run has ended
WentPast(k) == Len(shown) > k \/ exitCode = 0

\* C31: in paged mode, after printing a block that contains a code reference
\* the consumer waits for ENTER before it prints anything further or finishes
\* the run, the final block of the review included when it holds a reference.
C31_EnterAfterEveryRefBlock ==
    paged =>
        \A k \in 1..Len(blocks) :
            (HasRefs(blocks, k) /\ WentPast(k)) => Len(acked) >= k

-----------------------------------------------------------------------------
(* The two delivery modes against each other *)

\* the narration written to the sink so far, block after block
SinkText == Concat(shown)

\* what continuous mode writes for the tokens the tokenizer has returned so
\* far: the rendering of every token, once and in token order
TokensText == RenderAll(emitted, diff, rawMode)

\* C32: for the same chunks and index, the text paged mode writes to the
\* sink, prompts, prompt erasers and separators left out, is the text
\* continuous mode writes: the rendering of every token, once and in token
\* order, under every interleaving of producer steps, polls and ENTERs.
C32_PagedWritesWhatContinuousWrites ==
    /\ IsPrefix(SinkText, TokensText)
    /\ exitCode = 0 => SinkText = TokensText
    /\ ~paged => SinkText = TokensText

\* a paged run of three blocks has ended after two ENTERs
C32_Witness ==
    /\ paged
    /\ exitCode = 0
    /\ Len(shown) = 3
    /\ Len(acked) = 2
    /\ Len(emitted) = 5
    /\ SinkText = TokensText

-----------------------------------------------------------------------------
(* The state shared by the producer and the consumer of paged mode *)

\* the block list after a step holds every block it held, the last one
\* possibly longer, and possibly more blocks
BlocksAppended ==
    /\ Len(blocks') >= Len(blocks)
    /\ \A k \in 1..(Len(blocks) - 1) : blocks'[k].content = blocks[k].content
    /\ IsPrefix(blocks[Len(blocks)].content, blocks'[Len(blocks)].content)

\* the consumer's pair (i, c) after a step is not before the pair it was
CursorForward ==
    \/ curBlock' > curBlock
    \/ curBlock' = curBlock /\ curChars' >= curChars

\* C33: in paged mode the shared state changes only by appending: the block
\* list never shrinks, the content of a block other than the last never
\* changes, the content of the last block only grows by appending, and the
\* consumer's pair (block index, printed length) only moves forward, the
\* printed length never exceeding the content length of the current block.
C33_AppendOnly ==
    /\ [][paged => (BlocksAppended /\ CursorForward)]_vars
    /\ [](paged => curChars <= Len(BlockAt(blocks, curBlock).content))

\* the consumer has written the second of three blocks in full
C33_Witness ==
    /\ paged
    /\ Len(blocks) = 3
    /\ curBlock = 1
    /\ curChars > 0
    /\ curChars = Len(blocks[2].content)

-----------------------------------------------------------------------------
(* The file of a reference: tokenizer against resolver *)

\* C34: for every reference token, the file path the tokenizer attaches to the
\* token (the one the paged prompt lists) is the file path resolveReference
\* reports for the same reference text, bodies with ':hunk:' more than once
\* or with a ':hunk:' that no digits follow included.
C34_TokenFileIsResolvedFile ==
    AfterResolve => resolved.file = RefToken(ref).file

-----------------------------------------------------------------------------
(* The tokens of a text under different chunkings *)

\* the tokens of push(t) followed by flush(), after one push with push result r
FlushedAfter(r) ==
    Coalesce(Coalesce(<<>>, r.tokens), ParserFlush(r.buffer, r.inRef).tokens)

\* the tokens of the text given as a single chunk
InOneChunk(t) == FlushedAfter(ParserPush(<<>>, FALSE, t))

\* C35: the token sequence of a text, adjacent text tokens merged, does not
\* depend on how the text is split into chunks: every chunking followed by one
\* flush gives the tokens the single chunk gives, texts with a marker whose
\* bracketed form is longer than 200 characters included.
C35_ChunkingIndependent ==
    pc = "done" => emitted = InOneChunk(text)

-----------------------------------------------------------------------------
(* The hunks of a resolved reference *)

\* C36: every resolved result for a reference with a hunk suffix holds at
\* least one hunk; a hunk range whose first number is greater than its second
\* (path:hunk:3-1) does not resolve to a result without hunks.
C36_ResolvedHasHunk ==
    (AfterResolve /\ HasHunkSuffix /\ resolved.status = "resolved")
    => Len(resolved.hunks) >= 1

-----------------------------------------------------------------------------
(* The shape of the blocks *)

\* the positions in the log of the tokens placed in block k (1-based)
TokensOf(log, k) == {j \in 1..Len(log) : log[j].block = k}

\* block k holds a reference token
HoldsRef(log, bs, k) ==
    /\ \E j \in TokensOf(log, k) : log[j].type = "ref"
    /\ bs[k].files # {}

\* block k is not empty and its first token is a text with a non-whitespace
\* character
BeginsWithProse(log, bs, k) ==
    /\ bs[k].content # <<>>
    /\ TokensOf(log, k) # {}
    /\ \A j \in TokensOf(log, k) :
          (\A i \in TokensOf(log, k) : j <= i)
          => /\ log[j].type = "text"
             /\ Trim(log[j].content) # <<>>
             /\ log[j].offset = 0

\* C37: in paged mode, at every point of the run, every block except the last
\* holds at least one reference token, so that its file set is not empty when
\* its prompt is shown, and every block except the first is not empty and
\* begins with a text token that has a non-whitespace character.
C37_BlockShape ==
    paged =>
        /\ \A k \in 1..(Len(blocks) - 1) : HoldsRef(handled, blocks, k)
        /\ \A k \in 2..Len(blocks) : BeginsWithProse(handled, blocks, k)
        /\ \A p \in 1..Len(prompts) : prompts[p].files # {}

\* three blocks, the first two with a reference each, and both prompts shown
C37_Witness ==
    /\ paged
    /\ Len(blocks) = 3
    /\ Len(prompts) = 2
    /\ HoldsRef(handled, blocks, 1)
    /\ HoldsRef(handled, blocks, 2)
    /\ BeginsWithProse(handled, blocks, 3)

====
